---------------------------- MODULE Spec2Model ----------------------------
(***************************************************************************)
(* DropFrenzy: the upgrade economy (UpgradeManager, BaseUpgrade), the      *)
(* persistence codec (SaveManager) and the item simulation (Item,          *)
(* ItemManager, Game), modelled as one state machine.                      *)
(*                                                                         *)
(* Numbers.  Currency is a JavaScript number.  It is kept here as an       *)
(* integer count of 1/Frac units, so that fractional amounts such as 1.5   *)
(* (3 units when Frac = 2) are representable and Math.round is a real      *)
(* rounding step.  Costs are exact rationals floored as Math.floor does.   *)
(***************************************************************************)
EXTENDS Integers, Sequences, FiniteSets, TLC

VARIABLES
  currency,           \* UpgradeManager.currency, in 1/Frac units
  level,              \* Upgrade.level for every upgrade of the catalog
  storage,            \* localStorage[SAVE_KEY]
  lastSaveTimestamp,  \* SaveManager.lastSaveTimestamp
  autoSaveIntervalId, \* SaveManager.autoSaveIntervalId is not null
  autoSaveTimers,     \* the interval timers of window.setInterval still active
  items,              \* ItemManager.items, in insertion order
  nextItemId,         \* ItemManager.nextItemId
  timeSinceLastSpawn, \* ItemManager.timeSinceLastSpawn
  spawnRateMultiplier,\* ItemManager.spawnRateMultiplier
  speedMultiplier,    \* ItemManager.speedMultiplier
  isRunning,          \* Game.isRunning
  pendingFrames,      \* callbacks handed to requestAnimationFrame, not yet fired
  autoClickTimer,     \* Game.autoClickTimer
  risingAutoClickTimer, \* Game.risingAutoClickTimer
  op,                 \* the operation that made the last step, with its argument
  ret,                \* the boolean that operation returned
  retValue,           \* the number that operation returned
  raised,             \* whether that operation raised an error to its caller
  notified,           \* the values passed to onCurrencyChange by that operation
  missedItems,        \* the ids of the list returned by the last ItemManager.update, in its order
  everMissed,         \* history: ids ever returned in a missed list
  rewards             \* history: per id, how often a click or an auto-collector
                      \* took the item and added its value to currency

ecoVars == <<currency, level, storage, lastSaveTimestamp>>

saveTimerVars == <<autoSaveIntervalId, autoSaveTimers>>

itemVars == <<items, nextItemId, timeSinceLastSpawn, spawnRateMultiplier, speedMultiplier>>

loopVars == <<isRunning, pendingFrames, autoClickTimer, risingAutoClickTimer>>

resultVars == <<op, ret, retValue, raised, notified>>

historyVars == <<missedItems, everMissed, rewards>>

gameVars == <<saveTimerVars, itemVars, loopVars, retValue, historyVars>>

vars == <<ecoVars, saveTimerVars, itemVars, loopVars, resultVars, historyVars>>

----------------------------------------------------------------------------
(* Bounds of the exploration *)

\* currency resolution: 1/Frac of a unit
Frac == 2
\* currency is credited while the balance stays within this many units
MaxCurrency == 6
\* Date.now() is drawn from 1..MaxTimestamp
MaxTimestamp == 1
\* frames are explored while fewer than MaxItems items were spawned
MaxItems == 2
\* start() is explored while fewer frame callbacks are pending
MaxPendingFrames == 2
\* recorded levels reach maxLevel + ExtraLevels
ExtraLevels == 2
\* the chance formula is tried with critical_chance at levels 0..MaxCriticalLevel
MaxCriticalLevel == 8
\* upgrade() and getCurrentCost() are tried on levels 0..MaxCostLevel
MaxCostLevel == 2

\* The highest level of the multiplier, drop_rate and gravity upgrades at
\* which the three multipliers are read
MaxEffectLevel == 3
\* the currency a manager is constructed with when every upgrade is to be bought
MaxPurse == 60

----------------------------------------------------------------------------
(* Arithmetic helpers *)

Min(a, b) == IF a <= b THEN a ELSE b
Max(a, b) == IF a >= b THEN a ELSE b

RECURSIVE Pow(_, _)
Pow(b, e) == IF e = 0 THEN 1 ELSE b * Pow(b, e - 1)

\* Math.round on a value of n/Frac: the nearest integer, halves rounded up;
\* the result is again expressed in 1/Frac units.
MathRound(n) == Frac * ((2 * n + Frac) \div (2 * Frac))

IsWhole(n) == n % Frac = 0

\* Exact rationals [n, d] with d > 0, kept in lowest terms.
RECURSIVE Gcd(_, _)
Gcd(a, b) == IF b = 0 THEN a ELSE Gcd(b, a % b)

Abs(a) == IF a < 0 THEN -a ELSE a

Rat(n, d) == LET g == Gcd(Abs(n), d) IN [n |-> n \div g, d |-> d \div g]

RMul(p, q) == Rat(p.n * q.n, p.d * q.d)
RAdd(p, q) == Rat(p.n * q.d + q.n * p.d, p.d * q.d)
RLess(p, q) == p.n * q.d < q.n * p.d
RLeq(p, q) == p.n * q.d <= q.n * p.d
RMax(p, q) == IF RLess(p, q) THEN q ELSE p
RMin(p, q) == IF RLess(q, p) THEN q ELSE p
RFloor(p) == p.n \div p.d

\* Math.round of a rational: floor(p + 1/2)
RRound(p) == (2 * p.n + p.d) \div (2 * p.d)

RNeg(p) == Rat(-p.n, p.d)
RAbs(p) == Rat(Abs(p.n), p.d)

\* p / q for q # 0
RDiv(p, q) == IF q.n < 0 THEN Rat(-p.n * q.d, p.d * (-q.n)) ELSE Rat(p.n * q.d, p.d * q.n)

\* Math.sqrt of a whole number and of a rational, rounded down to a whole
\* number and to a multiple of 1/p.d; exact when the argument is a square.
ISqrt(n) == CHOOSE r \in 0..n : r * r <= n /\ (r + 1) * (r + 1) > n

RSqrt(p) == Rat(ISqrt(p.n * p.d), p.d)

\* A rational in fixed point with unit 1/scale, rounded down
ToFixed(p, scale) == (p.n * scale) \div p.d

RECURSIVE RPow(_, _)
RPow(p, e) == IF e = 0 THEN Rat(1, 1) ELSE RMul(p, RPow(p, e - 1))


----------------------------------------------------------------------------
(* The upgrade catalog: UpgradeManager.initializeUpgrades creates one      *)
(* instance of each class of UpgradeTypes.ts, in this order.  A cost       *)
(* multiplier such as 1.2 is the exact rational cmNum/cmDen; baseEffect is *)
(* beNum/beDen and effectMultiplier emNum/emDen.                           *)

UpgradeOrder == <<"autoclicker", "multiplier", "drop_rate", "gravity", "critical_chance">>

UpgradeIds == {UpgradeOrder[i] : i \in 1..Len(UpgradeOrder)}

\* A catalog whose autoclicker has the cost multiplier 1: its cost does not
\* grow with the level, so the level discount makes every level cheaper
CatalogFlatCost ==
  [autoclicker     |-> [baseCost |-> 5,  cmNum |-> 1,  cmDen |-> 1,  maxLevel |-> 50,
                        beNum |-> 1, beDen |-> 2,  emNum |-> 5,  emDen |-> 4],
   multiplier      |-> [baseCost |-> 15, cmNum |-> 5,  cmDen |-> 4,  maxLevel |-> 30,
                        beNum |-> 2, beDen |-> 1,  emNum |-> 23, emDen |-> 20],
   drop_rate       |-> [baseCost |-> 8,  cmNum |-> 6,  cmDen |-> 5,  maxLevel |-> 40,
                        beNum |-> 3, beDen |-> 2,  emNum |-> 6,  emDen |-> 5],
   gravity         |-> [baseCost |-> 12, cmNum |-> 5,  cmDen |-> 4,  maxLevel |-> 25,
                        beNum |-> 9, beDen |-> 10, emNum |-> 9,  emDen |-> 10],
   critical_chance |-> [baseCost |-> 20, cmNum |-> 13, cmDen |-> 10, maxLevel |-> 20,
                        beNum |-> 1, beDen |-> 10, emNum |-> 7,  emDen |-> 5]]

Catalog ==
  [autoclicker     |-> [baseCost |-> 5,  cmNum |-> 6,  cmDen |-> 5,  maxLevel |-> 50,
                        beNum |-> 1, beDen |-> 2,  emNum |-> 5,  emDen |-> 4],
   multiplier      |-> [baseCost |-> 15, cmNum |-> 5,  cmDen |-> 4,  maxLevel |-> 30,
                        beNum |-> 2, beDen |-> 1,  emNum |-> 23, emDen |-> 20],
   drop_rate       |-> [baseCost |-> 8,  cmNum |-> 6,  cmDen |-> 5,  maxLevel |-> 40,
                        beNum |-> 3, beDen |-> 2,  emNum |-> 6,  emDen |-> 5],
   gravity         |-> [baseCost |-> 12, cmNum |-> 5,  cmDen |-> 4,  maxLevel |-> 25,
                        beNum |-> 9, beDen |-> 10, emNum |-> 9,  emDen |-> 10],
   critical_chance |-> [baseCost |-> 20, cmNum |-> 13, cmDen |-> 10, maxLevel |-> 20,
                        beNum |-> 1, beDen |-> 10, emNum |-> 7,  emDen |-> 5]]

maxLevel(id) == Catalog[id].maxLevel

\* An id the catalog does not know (a purchase intent or a save entry of a
\* later catalog).
UnknownId == "rising_balls"

AnyIds == UpgradeIds \cup {UnknownId}

----------------------------------------------------------------------------
(* BaseUpgrade *)

\* A canUpgrade() that still admits an upgrade at maxLevel
canUpgradeInclusive(id, l) == l <= maxLevel(id)

\* canUpgrade(): level < maxLevel
canUpgrade(id, l) == l < maxLevel(id)

\* An upgrade() that raises the level without asking canUpgrade()
upgradeUnchecked(id, l) == l + 1

\* upgrade(): level += 1 iff canUpgrade()
upgrade(id, l) == IF canUpgrade(id, l) THEN l + 1 ELSE l

\* The getCurrentCost() of the earlier BaseUpgrade: floor(baseCost * costMultiplier^level)
getCurrentCostNoDiscount(id, l) ==
  LET u == Catalog[id]
  IN  (u.baseCost * Pow(u.cmNum, l)) \div Pow(u.cmDen, l)

\* getCurrentCost(): floor(baseCost * costMultiplier^level * (1 - levelDiscount)),
\* levelDiscount = min(0.25, level * 0.01); in whole currency units.
getCurrentCost(id, l) ==
  LET u == Catalog[id]
      discountPct == Min(25, l)
  IN  (u.baseCost * Pow(u.cmNum, l) * (100 - discountPct)) \div (Pow(u.cmDen, l) * 100)

\* The same cost in 1/Frac units, as it is compared with and taken from currency.
CostUnits(id, l) == Frac * getCurrentCost(id, l)

\* getCurrentEffect(): 0 at level 0, else baseScaling + levelBonus with
\* baseScaling = baseEffect * effectMultiplier^(level - 1) and
\* levelBonus = (level - 5) * 0.05 * baseScaling above level 5;
\* capped at 1 for the critical chance.  The sum is computed as the product
\* baseScaling * (1 + (level - 5) / 20), which is the same number and keeps
\* the numerators small.
getCurrentEffect(id, l) ==
  IF l = 0 THEN Rat(0, 1)
  ELSE LET u == Catalog[id]
           baseScaling == RMul(Rat(u.beNum, u.beDen), RPow(Rat(u.emNum, u.emDen), l - 1))
           withBonus == IF l > 5 THEN RMul(baseScaling, Rat(20 + (l - 5), 20)) ELSE baseScaling
       IN  IF id = "critical_chance"
           THEN RMin(Rat(1, 1), withBonus)
           ELSE withBonus

----------------------------------------------------------------------------
(* UpgradeManager.  Each operation is a function of the manager's state    *)
(* (currency, levels) to its result: the new state, the returned value and *)
(* the onCurrencyChange notifications it fired.                            *)

\* A canPurchaseUpgrade(id) that wants more currency than the cost
canPurchaseUpgradeStrict(cur, lvl, id) ==
  IF id \notin UpgradeIds \/ ~canUpgrade(id, lvl[id])
  THEN FALSE
  ELSE cur > CostUnits(id, lvl[id])

\* canPurchaseUpgrade(id)
canPurchaseUpgrade(cur, lvl, id) ==
  IF id \notin UpgradeIds \/ ~canUpgrade(id, lvl[id])
  THEN FALSE
  ELSE cur >= CostUnits(id, lvl[id])

\* A purchaseUpgrade(id) that upgrades first and reads the cost afterwards
purchaseUpgradeCostAfter(cur, lvl, id) ==
  IF id \notin UpgradeIds
  THEN [ret |-> FALSE, raised |-> FALSE, currency |-> cur, level |-> lvl, notified |-> <<>>]
  ELSE IF ~canUpgrade(id, lvl[id])
  THEN [ret |-> FALSE, raised |-> FALSE, currency |-> cur, level |-> lvl, notified |-> <<>>]
  ELSE IF cur < CostUnits(id, lvl[id])
  THEN [ret |-> FALSE, raised |-> FALSE, currency |-> cur, level |-> lvl, notified |-> <<>>]
  ELSE LET after == upgrade(id, lvl[id])
           cost == CostUnits(id, after)
       IN  [ret      |-> TRUE,
            raised   |-> FALSE,
            currency |-> cur - cost,
            level    |-> [lvl EXCEPT ![id] = after],
            notified |-> <<cur - cost>>]

\* purchaseUpgrade(id)
purchaseUpgrade(cur, lvl, id) ==
  IF id \notin UpgradeIds
  THEN [ret |-> FALSE, raised |-> FALSE, currency |-> cur, level |-> lvl, notified |-> <<>>]
  ELSE IF ~canUpgrade(id, lvl[id])
  THEN [ret |-> FALSE, raised |-> FALSE, currency |-> cur, level |-> lvl, notified |-> <<>>]
  ELSE LET cost == CostUnits(id, lvl[id])
       IN  IF cur < cost
           THEN [ret |-> FALSE, raised |-> FALSE, currency |-> cur, level |-> lvl, notified |-> <<>>]
           ELSE [ret      |-> TRUE,
                 raised   |-> FALSE,
                 currency |-> cur - cost,
                 level    |-> [lvl EXCEPT ![id] = upgrade(id, lvl[id])],
                 notified |-> <<cur - cost>>]

\* getTotalUpgradeLevels()
RECURSIVE SumLevels(_, _)
SumLevels(lvl, i) ==
  IF i > Len(UpgradeOrder) THEN 0 ELSE lvl[UpgradeOrder[i]] + SumLevels(lvl, i + 1)

\* A getTotalUpgradeLevels() that counts nothing
getTotalUpgradeLevelsNone(lvl) == 0

getTotalUpgradeLevels(lvl) == SumLevels(lvl, 1)

\* getValueMultiplier(): max(1, effect of the multiplier upgrade)
getValueMultiplier(lvl) == RMax(Rat(1, 1), getCurrentEffect("multiplier", lvl["multiplier"]))

\* getDropRateMultiplier(): max(1, effect) * (1 + totalLevels * 0.005)
getDropRateMultiplier(lvl) ==
  RMul(RMax(Rat(1, 1), getCurrentEffect("drop_rate", lvl["drop_rate"])),
       Rat(1000 + 5 * getTotalUpgradeLevels(lvl), 1000))

\* getGravityMultiplier(): max(0.2, effect of the gravity upgrade)
getGravityMultiplier(lvl) == RMax(Rat(1, 5), getCurrentEffect("gravity", lvl["gravity"]))

\* CriticalChanceUpgrade.getCriticalChance(): min(0.8, getCurrentEffect())
getUpgradeCriticalChance(l) == RMin(Rat(4, 5), getCurrentEffect("critical_chance", l))

\* getCriticalChance(): min(1, upgrade's chance + totalLevels * 0.002)
getCriticalChance(lvl) ==
  RMin(Rat(1, 1), RAdd(getUpgradeCriticalChance(lvl["critical_chance"]),
                       Rat(2 * getTotalUpgradeLevels(lvl), 1000)))

\* getCriticalMultiplier(): 3.0
getCriticalMultiplier(lvl) == Rat(3, 1)

\* getAutoClickRate(): effect of the autoclicker upgrade, items per second
getAutoClickRate(lvl) == getCurrentEffect("autoclicker", lvl["autoclicker"])

\* setCurrency(amount): stores the amount as given
setCurrency(cur, amount) == [currency |-> amount, notified |-> <<amount>>]

\* An addCurrency(amount) that is run twice for one credit
addCurrencyTwice(cur, amount) ==
  [currency |-> cur + 2 * MathRound(amount),
   notified |-> <<cur + MathRound(amount), cur + 2 * MathRound(amount)>>]

\* addCurrency(amount): adds Math.round(amount)
addCurrency(cur, amount) ==
  [currency |-> cur + MathRound(amount), notified |-> <<cur + MathRound(amount)>>]

----------------------------------------------------------------------------
(* The stored record.  localStorage holds a string; it is modelled by what *)
(* JSON.parse makes of it: absent, unparseable, or a JSON value whose      *)
(* members carry their JavaScript type, so that the typeof tests of        *)
(* validateSaveState are real tests.                                       *)

CURRENT_VERSION == 1

JNum(n)   == [t |-> "number",    n |-> n, s |-> ""]
JStr(str) == [t |-> "string",    n |-> 0, s |-> str]
JNull     == [t |-> "null",      n |-> 0, s |-> ""]
JUndef    == [t |-> "undefined", n |-> 0, s |-> ""]

\* typeof: null is an object
TypeOf(j) == IF j.t = "null" THEN "object" ELSE j.t

\* One element of the upgrades array: an object {id, level}, or not an object.
JEntry(id, lv) == [t |-> "object", id |-> id, level |-> lv]
JEntryNull     == [t |-> "null",   id |-> JUndef, level |-> JUndef]

JArr(entries) == [t |-> "array", a |-> entries]
JNotArr       == [t |-> "undefined", a |-> <<>>]

NoRecord == [kind |-> "none", top |-> "undefined", version |-> JUndef,
             timestamp |-> JUndef, currency |-> JUndef, upgrades |-> JNotArr]

\* A stored string that is not JSON: JSON.parse throws.
Garbage == [NoRecord EXCEPT !.kind = "garbage"]

\* A stored JSON text whose top-level value is not an object with members
\* ("null", "number").
JTop(top) == [NoRecord EXCEPT !.kind = "json", !.top = top]

JObj(version, timestamp, cur, upgrades) ==
  [kind |-> "json", top |-> "object", version |-> version,
   timestamp |-> timestamp, currency |-> cur, upgrades |-> upgrades]

\* JSON.stringify of the GameSaveState built by saveGame, read back by
\* JSON.parse: finite numbers and strings keep type and value.
Stringify(version, timestamp, cur, lvl) ==
  JObj(JNum(version), JNum(timestamp), JNum(cur),
       JArr([i \in 1..Len(UpgradeOrder) |->
               JEntry(JStr(UpgradeOrder[i]), JNum(lvl[UpgradeOrder[i]]))]))

----------------------------------------------------------------------------
(* SaveManager *)

\* validateSaveState(saveState): "true", "false", or "throw" when a member
\* of null is read (a TypeError, caught by loadGame).
RECURSIVE ValidateEntries(_, _)
ValidateEntries(a, i) ==
  IF i > Len(a) THEN "true"
  ELSE LET e == a[i]
       IN  IF TypeOf(e) # "object" THEN "false"
           ELSE IF e.t = "null" THEN "throw"
           ELSE IF TypeOf(e.id) # "string" \/ TypeOf(e.level) # "number" \/ e.level.n < 0
           THEN "false"
           ELSE ValidateEntries(a, i + 1)

\* A validateSaveState that does not look at the version number
validateSaveStateAnyVersion(saveState) ==
  IF saveState.top \notin {"object", "null", "array"} THEN "false"
  ELSE IF saveState.top = "null" THEN "throw"
  ELSE IF \/ TypeOf(saveState.version) # "number"
          \/ TypeOf(saveState.timestamp) # "number"
          \/ TypeOf(saveState.currency) # "number"
          \/ saveState.upgrades.t # "array"
  THEN "false"
  ELSE ValidateEntries(saveState.upgrades.a, 1)

validateSaveState(saveState) ==
  IF saveState.top \notin {"object", "null", "array"} THEN "false"
  ELSE IF saveState.top = "null" THEN "throw"
  ELSE IF \/ TypeOf(saveState.version) # "number"
          \/ TypeOf(saveState.timestamp) # "number"
          \/ TypeOf(saveState.currency) # "number"
          \/ saveState.upgrades.t # "array"
  THEN "false"
  ELSE IF saveState.version.n > CURRENT_VERSION THEN "false"
  ELSE ValidateEntries(saveState.upgrades.a, 1)

\* The loop "for (i = 0; i < upgradeSave.level; i++) upgrade.upgrade()".
\* Once a call of upgrade() leaves the level as it is, so do the remaining
\* calls, and the level is the result of the loop.
RECURSIVE Replay(_, _, _)
Replay(id, l, n) ==
  IF n <= 0 \/ upgrade(id, l) = l THEN l ELSE Replay(id, upgrade(id, l), n - 1)

\* saveState.upgrades.forEach: a known id is reset to level 0 and upgraded
\* the recorded number of times; an unknown id is skipped.
RECURSIVE ApplyEntries(_, _, _)
ApplyEntries(lvl, a, i) ==
  IF i > Len(a) THEN lvl
  ELSE LET id == a[i].id.s
       IN  IF id \in UpgradeIds
           THEN ApplyEntries([lvl EXCEPT ![id] = Replay(id, 0, a[i].level.n)], a, i + 1)
           ELSE ApplyEntries(lvl, a, i + 1)

\* A loadGame() that refuses a record naming an upgrade it does not know
loadGameKnownIdsOnly(cur, lvl, stor, readThrows) ==
  LET unchanged == [ret |-> FALSE, raised |-> FALSE, currency |-> cur, level |-> lvl, notified |-> <<>>]
  IN  IF readThrows THEN unchanged
      ELSE IF stor.kind = "none" THEN unchanged
      ELSE IF stor.kind = "garbage" THEN unchanged
      ELSE IF validateSaveState(stor) # "true" THEN unchanged
      ELSE IF \E i \in 1..Len(stor.upgrades.a) : stor.upgrades.a[i].id.s \notin UpgradeIds
      THEN unchanged
      ELSE LET c == setCurrency(cur, stor.currency.n)
           IN  [ret      |-> TRUE,
                raised   |-> FALSE,
                currency |-> c.currency,
                level    |-> ApplyEntries(lvl, stor.upgrades.a, 1),
                notified |-> c.notified]

\* loadGame() with localStorage holding stor; readThrows: getItem throws.
loadGame(cur, lvl, stor, readThrows) ==
  LET unchanged == [ret |-> FALSE, raised |-> FALSE, currency |-> cur, level |-> lvl, notified |-> <<>>]
  IN  IF readThrows THEN unchanged
      ELSE IF stor.kind = "none" THEN unchanged
      ELSE IF stor.kind = "garbage" THEN unchanged
      ELSE IF validateSaveState(stor) # "true" THEN unchanged
      ELSE LET c == setCurrency(cur, stor.currency.n)
           IN  [ret      |-> TRUE,
                raised   |-> FALSE,
                currency |-> c.currency,
                level    |-> ApplyEntries(lvl, stor.upgrades.a, 1),
                notified |-> c.notified]

\* A saveGame() that stamps the record with the next version number
saveGameNextVersion(cur, lvl, stor, now, writeThrows) ==
  IF writeThrows THEN stor ELSE Stringify(CURRENT_VERSION + 1, now, cur, lvl)

\* saveGame(): the record written, or the old content when setItem throws.
saveGame(cur, lvl, stor, now, writeThrows) ==
  IF writeThrows THEN stor ELSE Stringify(CURRENT_VERSION, now, cur, lvl)

\* A resetGameState() that resets the currency only
resetGameStateCurrencyOnly(cur, lvl) ==
  LET c == setCurrency(cur, 0)
  IN  [currency |-> c.currency, level |-> lvl, notified |-> c.notified]

\* resetGameState(): setCurrency(0), every level = 0
resetGameState(cur, lvl) ==
  LET c == setCurrency(cur, 0)
  IN  [currency |-> c.currency, level |-> [id \in DOMAIN lvl |-> 0], notified |-> c.notified]

\* hasSave()
hasSave(stor) == stor.kind # "none"

----------------------------------------------------------------------------
(* Items.  Positions, speeds and times are JavaScript numbers; they are    *)
(* kept in fixed point, FP units per pixel, per pixel/second and per       *)
(* second, and every product is divided back by FP (rounded down).         *)

FP == 10 * 100

\* window.innerWidth and window.innerHeight, in pixels
InnerWidth == 4 * 100
InnerHeight == 10 * 100

ItemWidth == 40
ItemHeight == 40
MaxHorizontalSpeed == 30
MaxSpeed == 800
ClickableAreaExtension == 20
BaseSpeed == 250
BaseValue == 1
SpawnY == 20

Clamp(v, lo, hi) == IF v < lo THEN lo ELSE IF v > hi THEN hi ELSE v

\* The elements of a sequence, and the ids of a sequence of items
Range(seq) == {seq[i] : i \in 1..Len(seq)}

Ids(its) == [i \in 1..Len(its) |-> its[i].id]

\* new Item(id, x, y, speed, baseValue, container); velocityX is
\* (Math.random() - 0.5) * 20, passed in as vx.
NewItem(id, x, y, speed, vx, rising) ==
  [id |-> id, x |-> x, y |-> y, speed |-> speed, velocityX |-> vx,
   baseValue |-> BaseValue, isRising |-> rising, isCollected |-> FALSE,
   collisionCooldown |-> 0]

\* The tail of Item.update shared by both modes: bounce off the left and
\* right edges, drag, horizontal speed limit, collision cooldown.
ItemUpdateTail(it, dt) ==
  LET maxX == (InnerWidth - ItemWidth) * FP
      x1 == IF it.x < 0 THEN 0 ELSE it.x
      v1 == IF it.x < 0 THEN (-it.velocityX * 8) \div 10 ELSE it.velocityX
      x2 == IF x1 > maxX THEN maxX ELSE x1
      v2 == IF x1 > maxX THEN (-v1 * 8) \div 10 ELSE v1
      v3 == (v2 * 99) \div 100
      v4 == IF Abs(v3) > MaxHorizontalSpeed * FP
            THEN (IF v3 < 0 THEN -1 ELSE 1) * MaxHorizontalSpeed * FP
            ELSE v3
  IN  [it EXCEPT !.x = x2, !.velocityX = v4,
                 !.collisionCooldown = IF @ > 0 THEN @ - dt ELSE @]

\* Item.update(deltaTime)
ItemUpdate(it, dt) ==
  IF it.isCollected THEN it
  ELSE IF it.isRising
  THEN LET progressUpScreen == Clamp(FP - it.y \div InnerHeight, 0, FP)
           speedFactor == FP + 2 * progressUpScreen
           y1 == it.y - (((it.speed * speedFactor) \div FP) * dt) \div FP
           x1 == it.x + (it.velocityX * dt) \div FP
           moved == [it EXCEPT !.x = x1, !.y = y1]
       IN  IF y1 < -ItemHeight * FP THEN moved ELSE ItemUpdateTail(moved, dt)
  ELSE LET progressDownScreen == Clamp(it.y \div InnerHeight, 0, FP)
           accelerationFactor == FP + 2 * progressDownScreen
           s1 == it.speed + (dt * 100 * accelerationFactor) \div (2 * FP)
           s2 == IF s1 > MaxSpeed * FP THEN MaxSpeed * FP ELSE s1
           y1 == it.y + (s2 * dt) \div FP
       IN  ItemUpdateTail([it EXCEPT !.speed = s2, !.y = y1], dt)

\* Item.containsPoint(pointX, pointY)
containsPoint(it, px, py) ==
  LET halfWidth == (ItemWidth * FP) \div 2 + ClickableAreaExtension * FP
      halfHeight == (ItemHeight * FP) \div 2 + ClickableAreaExtension * FP
  IN  /\ px >= it.x - halfWidth
      /\ px <= it.x + halfWidth
      /\ py >= it.y - halfHeight
      /\ py <= it.y + halfHeight

\* Item.collect(): marks the item and returns baseValue
collect(it) == [item |-> [it EXCEPT !.isCollected = TRUE], value |-> it.baseValue]

\* An off-screen test that knows the bottom edge only
OffScreenBelowOnly(it) ==
  ~it.isRising /\ it.y > (InnerHeight + ItemHeight) * FP

\* The off-screen test of ItemManager.update
OffScreen(it) ==
  \/ ~it.isRising /\ it.y > (InnerHeight + ItemHeight) * FP
  \/ it.isRising /\ it.y < -ItemHeight * FP

\* The vertical velocity of an item, positive downwards:
\* speed * (isRising ? -1 : 1)
VelocityY(it) == IF it.isRising THEN -it.speed ELSE it.speed

CollisionCooldown == FP \div 10
Restitution == Rat(3, 5)
SpeedKept == Rat(4, 5)

\* Item.handleCollision(other): the two items afterwards.  Velocities and
\* positions are computed as exact rationals, in pixels and pixels per
\* second, and stored back in fixed point.
handleCollision(this, other) ==
  LET cooled == [this EXCEPT !.collisionCooldown = CollisionCooldown]
      dx == Rat(this.x - other.x, FP)
      dy == Rat(this.y - other.y, FP)
      distance == RSqrt(RAdd(RMul(dx, dx), RMul(dy, dy)))
  IN  IF distance.n = 0 THEN [this |-> cooled, other |-> other]
      ELSE
        LET nx == RDiv(dx, distance)
            ny == RDiv(dy, distance)
            vx == Rat(this.velocityX - other.velocityX, FP)
            vy == Rat(VelocityY(this) - VelocityY(other), FP)
            velocityAlongNormal == RAdd(RMul(vx, nx), RMul(vy, ny))
        IN  IF velocityAlongNormal.n > 0 THEN [this |-> cooled, other |-> other]
            ELSE
              LET impulseScalar == RMul(RNeg(RAdd(Rat(1, 1), Restitution)), velocityAlongNormal)
                  half == RMul(impulseScalar, Rat(1, 2))
                  thisVelocityX == RAdd(Rat(this.velocityX, FP), RMul(nx, half))
                  otherVelocityX == RAdd(Rat(other.velocityX, FP), RNeg(RMul(nx, half)))
                  newThisVelocityY == RAdd(Rat(VelocityY(this), FP), RMul(ny, half))
                  newOtherVelocityY == RAdd(Rat(VelocityY(other), FP), RNeg(RMul(ny, half)))
                  thisSpeed == RMul(RAbs(newThisVelocityY), SpeedKept)
                  otherSpeed == RMul(RAbs(newOtherVelocityY), SpeedKept)
                  overlap == RAdd(Rat((ItemWidth + ItemWidth) \div 2, 1), RNeg(distance))
                  pushX == IF overlap.n > 0 THEN RMul(nx, RMul(overlap, Rat(1, 2))) ELSE Rat(0, 1)
                  pushY == IF overlap.n > 0 THEN RMul(ny, RMul(overlap, Rat(1, 2))) ELSE Rat(0, 1)
              IN  [this  |-> [cooled EXCEPT !.velocityX = ToFixed(thisVelocityX, FP),
                                            !.speed = ToFixed(thisSpeed, FP),
                                            !.x = @ + ToFixed(pushX, FP),
                                            !.y = @ + ToFixed(pushY, FP)],
                   other |-> [other EXCEPT !.velocityX = ToFixed(otherVelocityX, FP),
                                           !.speed = ToFixed(otherSpeed, FP),
                                           !.x = @ - ToFixed(pushX, FP),
                                           !.y = @ - ToFixed(pushY, FP)]]

\* A checkCollision(other) that does not look at isCollected
checkCollisionOfCollected(this, other) ==
  IF this.collisionCooldown > 0
  THEN [collision |-> FALSE, this |-> this, other |-> other]
  ELSE IF /\ this.x < other.x + ItemWidth * FP
          /\ this.x + ItemWidth * FP > other.x
          /\ this.y < other.y + ItemHeight * FP
          /\ this.y + ItemHeight * FP > other.y
  THEN LET h == handleCollision(this, other)
       IN  [collision |-> TRUE, this |-> h.this, other |-> h.other]
  ELSE [collision |-> FALSE, this |-> this, other |-> other]

\* Item.checkCollision(other): no collision for a collected item or during
\* the cooldown; else the bounding boxes are compared and an overlap is
\* handed to handleCollision.
checkCollision(this, other) ==
  IF this.isCollected \/ other.isCollected \/ this.collisionCooldown > 0
  THEN [collision |-> FALSE, this |-> this, other |-> other]
  ELSE IF /\ this.x < other.x + ItemWidth * FP
          /\ this.x + ItemWidth * FP > other.x
          /\ this.y < other.y + ItemHeight * FP
          /\ this.y + ItemHeight * FP > other.y
  THEN LET h == handleCollision(this, other)
       IN  [collision |-> TRUE, this |-> h.this, other |-> h.other]
  ELSE [collision |-> FALSE, this |-> this, other |-> other]

----------------------------------------------------------------------------
(* ItemManager.  The Map of items is a sequence in insertion order.        *)

\* setSpawnRateMultiplier(multiplier), setSpeedMultiplier(multiplier)
setSpawnRateMultiplier(multiplier) == RMax(Rat(1, 1), multiplier)
setSpeedMultiplier(multiplier) == RMax(Rat(1, 1), multiplier)

\* A spawn test that wants the interval exceeded
SpawnDueStrict(t, srm) == t * 2 * srm.n > 3 * srm.d * FP

\* timeSinceLastSpawn >= spawnInterval / spawnRateMultiplier, spawnInterval = 1.5
SpawnDue(t, srm) == t * 2 * srm.n >= 3 * srm.d * FP

\* spawnItem() and spawnRisingItem(): the item appended to the Map
spawnItem(id, randomX, vx, sm) ==
  NewItem(id, randomX, -SpawnY * FP, (BaseSpeed * FP * sm.n) \div sm.d, vx, FALSE)

spawnRisingItem(id, randomX, vx, sm) ==
  NewItem(id, randomX, (InnerHeight + SpawnY) * FP,
          (((BaseSpeed * FP * sm.n) \div sm.d) * 8) \div 10, vx, TRUE)

\* An ItemManager.update that reports an off-screen item as missed and
\* leaves it in the Map
ItemManagerUpdateKeepsMissed(its, nextId, t, srm, sm, dt, rollRising, randomX, vx) ==
  LET t1 == t + dt
      due == SpawnDue(t1, srm)
      spawned == IF ~due THEN its
                 ELSE IF rollRising THEN Append(its, spawnRisingItem(nextId, randomX, vx, sm))
                 ELSE Append(its, spawnItem(nextId, randomX, vx, sm))
      moved == [i \in 1..Len(spawned) |-> ItemUpdate(spawned[i], dt)]
      Missed(it) == OffScreen(it) /\ ~it.isCollected
  IN  [items |-> moved,
       missedItems |-> SelectSeq(moved, Missed),
       nextItemId |-> IF due THEN nextId + 1 ELSE nextId,
       timeSinceLastSpawn |-> IF due THEN 0 ELSE t1,
       spawnedNow |-> due]

\* ItemManager.update(deltaTime, risingChance).  rollRising is the outcome
\* of "risingChance > 0 && Math.random() < risingChance"; randomX and vx
\* are the random draws of the spawn.
ItemManagerUpdate(its, nextId, t, srm, sm, dt, rollRising, randomX, vx) ==
  LET t1 == t + dt
      due == SpawnDue(t1, srm)
      spawned == IF ~due THEN its
                 ELSE IF rollRising THEN Append(its, spawnRisingItem(nextId, randomX, vx, sm))
                 ELSE Append(its, spawnItem(nextId, randomX, vx, sm))
      moved == [i \in 1..Len(spawned) |-> ItemUpdate(spawned[i], dt)]
      Stays(it) == ~OffScreen(it)
      Missed(it) == OffScreen(it) /\ ~it.isCollected
  IN  [items |-> SelectSeq(moved, Stays),
       missedItems |-> SelectSeq(moved, Missed),
       nextItemId |-> IF due THEN nextId + 1 ELSE nextId,
       timeSinceLastSpawn |-> IF due THEN 0 ELSE t1,
       spawnedNow |-> due]

\* The first uncollected item, in insertion order, containing the point; 0 if none
RECURSIVE FirstHit(_, _, _, _)
FirstHit(its, px, py, i) ==
  IF i > Len(its) THEN 0
  ELSE IF ~its[i].isCollected /\ containsPoint(its[i], px, py) THEN i
  ELSE FirstHit(its, px, py, i + 1)

\* A collectItemAt whose search does not stop at the first item found, so
\* that the last uncollected item containing the point is the one collected
collectItemAtLastHit(its, px, py, risingValueMultiplier) ==
  LET under == {k \in 1..Len(its) : ~its[k].isCollected /\ containsPoint(its[k], px, py)}
      i == IF under = {} THEN 0 ELSE CHOOSE k \in under : \A j \in under : j <= k
  IN  IF i = 0
      THEN [items |-> its, collectedValue |-> Rat(0, 1), hit |-> 0]
      ELSE LET c == collect(its[i])
               valueMultiplier == IF its[i].isRising THEN risingValueMultiplier ELSE Rat(1, 1)
           IN  [items |-> [its EXCEPT ![i] = c.item],
                collectedValue |-> RMul(Rat(c.value, 1), valueMultiplier),
                hit |-> i]

\* collectItemAt(x, y, risingValueMultiplier): the value returned (a
\* rational, as the rising multiplier is fractional) and the items afterwards
collectItemAt(its, px, py, risingValueMultiplier) ==
  LET i == FirstHit(its, px, py, 1)
  IN  IF i = 0
      THEN [items |-> its, collectedValue |-> Rat(0, 1), hit |-> 0]
      ELSE LET c == collect(its[i])
               valueMultiplier == IF its[i].isRising THEN risingValueMultiplier ELSE Rat(1, 1)
           IN  [items |-> [its EXCEPT ![i] = c.item],
                collectedValue |-> RMul(Rat(c.value, 1), valueMultiplier),
                hit |-> i]

\* clear()
clear(its) == <<>>

----------------------------------------------------------------------------
(* Game *)

\* An accumulator that starts from 0 again after every collection and
\* drops the time left over
AutoClickSlotsDropRest(timer, rate, dt) ==
  IF rate.n <= 0 THEN [timer |-> timer, itemsToCollect |-> 0]
  ELSE LET t1 == timer + dt
           n == (rate.n * t1) \div (rate.d * FP)
       IN  IF n > 0
           THEN [timer |-> 0, itemsToCollect |-> n]
           ELSE [timer |-> t1, itemsToCollect |-> 0]

\* The accumulator of handleAutoClicker / handleRisingAutoClicker:
\* with rate <= 0 nothing happens; else timer += deltaTime,
\* itemsToCollect = floor(rate * timer) and, when positive,
\* timer -= itemsToCollect / rate.
AutoClickSlots(timer, rate, dt) ==
  IF rate.n <= 0 THEN [timer |-> timer, itemsToCollect |-> 0]
  ELSE LET t1 == timer + dt
           n == (rate.n * t1) \div (rate.d * FP)
       IN  IF n > 0
           THEN [timer |-> t1 - (n * rate.d * FP) \div rate.n, itemsToCollect |-> n]
           ELSE [timer |-> t1, itemsToCollect |-> 0]

\* An order that takes the item farthest from its exit first
BeforeFarthest(its, rising, i, j) ==
  IF its[i].y = its[j].y THEN i < j
  ELSE IF rising THEN its[i].y > its[j].y ELSE its[i].y < its[j].y

\* The indices of the candidates in the order of a stable sort by y:
\* descending (closest to the bottom first) for falling items, ascending
\* for rising items.  Before(i, j): item i is taken before item j.
Before(its, rising, i, j) ==
  IF its[i].y = its[j].y THEN i < j
  ELSE IF rising THEN its[i].y < its[j].y ELSE its[i].y > its[j].y

\* A collectMultipleItems / collectMultipleRisingItems that does not
\* filter out the collected items
collectMultipleAgain(its, count, rising, valueMultiplier, risingValueMultiplier) ==
  LET cand == {i \in 1..Len(its) : its[i].isRising = rising}
      itemsToCollect == Min(count, Cardinality(cand))
      Rank(i) == Cardinality({j \in cand : Before(its, rising, j, i)})
      chosen == {i \in cand : Rank(i) < itemsToCollect}
      Worth(i) == IF rising
                  THEN RRound(RMul(RMul(Rat(its[i].baseValue, 1), risingValueMultiplier),
                                   valueMultiplier))
                  ELSE RRound(RMul(Rat(its[i].baseValue, 1), valueMultiplier))
      Total[S \in SUBSET chosen] ==
        IF S = {} THEN 0
        ELSE LET i == CHOOSE k \in S : TRUE IN Worth(i) + Total[S \ {i}]
  IN  [items |-> [i \in 1..Len(its) |-> IF i \in chosen THEN collect(its[i]).item ELSE its[i]],
       chosenIds |-> {its[i].id : i \in chosen},
       totalValue |-> Total[chosen]]

\* collectMultipleItems(count) / collectMultipleRisingItems(count): the
\* uncollected items of the mode, sorted, the first min(count, length) of
\* them collected; totalValue is the sum of round(value * multipliers).
collectMultiple(its, count, rising, valueMultiplier, risingValueMultiplier) ==
  LET cand == {i \in 1..Len(its) : its[i].isRising = rising /\ ~its[i].isCollected}
      itemsToCollect == Min(count, Cardinality(cand))
      Rank(i) == Cardinality({j \in cand : Before(its, rising, j, i)})
      chosen == {i \in cand : Rank(i) < itemsToCollect}
      Worth(i) == IF rising
                  THEN RRound(RMul(RMul(Rat(its[i].baseValue, 1), risingValueMultiplier),
                                   valueMultiplier))
                  ELSE RRound(RMul(Rat(its[i].baseValue, 1), valueMultiplier))
      Total[S \in SUBSET chosen] ==
        IF S = {} THEN 0
        ELSE LET i == CHOOSE k \in S : TRUE IN Worth(i) + Total[S \ {i}]
  IN  [items |-> [i \in 1..Len(its) |-> IF i \in chosen THEN collect(its[i]).item ELSE its[i]],
       chosenIds |-> {its[i].id : i \in chosen},
       totalValue |-> Total[chosen]]

----------------------------------------------------------------------------
(* Inputs of the exploration *)

\* Amounts handed to addCurrency, in 1/Frac units: 1/Frac and 2 + 1/Frac.
AddAmounts == {1, 2 * Frac + 1}

\* Amounts handed to setCurrency: 1 + 1/Frac.
SetAmounts == {Frac + 1}

\* Date.now()
Timestamps == 1..MaxTimestamp

\* The time between two animation frames, in seconds: 3/2 (a slow frame,
\* so that every frame spawns and an item crosses the window in two)
DeltaTimes == {(3 * FP) \div 2}

\* Frames of 7/5 seconds as well: shorter than the spawn interval of the
\* multiplier 1 that level 0 gives, longer than that of the multiplier 1.1
\* the ItemManager is constructed with
LoopDeltaTimes == {(7 * FP) \div 5, (3 * FP) \div 2}

\* The random draws of a spawn: Math.random() * innerWidth, in pixels, and
\* (Math.random() - 0.5) * 20, in pixels per second
SpawnXs == {100}
SpawnVelocities == {0}

\* A click lands on the centre of some item of the Map or in the corner
\* of the window.
CornerPoint == <<(InnerWidth - 1) * FP, 0>>

ClickPoints(its) == {<<its[i].x, its[i].y>> : i \in 1..Len(its)} \cup {CornerPoint}

\* The ItemManager driven on its own, as its unit tests drive it: the
\* lengths of a tick, in seconds: 1/2 and 2
TickTimes == {FP \div 2, 2 * FP}

\* The points handed to collectItemAt: the click points and the point
\* halfway between two items of the Map
ManagerPoints(its) ==
  ClickPoints(its) \cup
  {<<(its[i].x + its[j].x) \div 2, (its[i].y + its[j].y) \div 2>> :
     i \in 1..Len(its), j \in 1..Len(its)}

\* The risingValueMultiplier handed to collectItemAt: 1.5, as Game hands it
RisingValueMultipliers == {Rat(3, 2)}

\* The multiplier handed to setSpawnRateMultiplier: with 1.5 an item is due
\* every second, which is two short ticks and half a long one
SpawnRateMultipliers == {Rat(3, 2)}

\* The multipliers handed to setSpeedMultiplier: the gravity multiplier of
\* level 0 (the floor 0.2) and of level 1 (0.9), and a multiplier above 1
SpeedMultipliers == {Rat(1, 5), Rat(9, 10), Rat(3, 2)}

\* Two items handed to checkCollision: the other item in the middle of the
\* window and this item at an offset from it, in pixels.  The offsets are
\* straight above, below and beside the other item and along a 3-4-5
\* diagonal, where the distance is a whole number, on the same spot, and
\* out of reach; the speeds are those of a new rising item and of falling
\* items, in pixels per second.
CollisionOffsets ==
  {<<0, -16>>, <<0, 16>>, <<12, 16>>, <<-12, -16>>, <<12, -16>>, <<16, 0>>, <<0, 0>>, <<0, 50>>}
CollisionSpeeds == {200, 250, 300}
CollisionVelocities == {<<0, 0>>, <<5, -5>>, <<-5, 5>>}
CollisionCentre == <<200, 500>>

CollisionPairs ==
  {<<[NewItem(0, (CollisionCentre[1] + o[1]) * FP, (CollisionCentre[2] + o[2]) * FP,
              s1 * FP, v[1] * FP, r1) EXCEPT !.collisionCooldown = 0],
     NewItem(1, CollisionCentre[1] * FP, CollisionCentre[2] * FP, s2 * FP, v[2] * FP, r2)>> :
     o \in CollisionOffsets, s1 \in CollisionSpeeds, s2 \in CollisionSpeeds,
     v \in CollisionVelocities, r1 \in BOOLEAN, r2 \in BOOLEAN}

\* The pairs of CollisionPairs whose items have the speed of a new falling
\* item and drift apart sideways
InertPairs ==
  {p \in CollisionPairs :
     /\ p[1].speed = BaseSpeed * FP /\ p[2].speed = BaseSpeed * FP
     /\ p[1].velocityX > 0}

\* Items created on their own, as the unit tests of Item create them: at
\* x = 100 and y = 50 or at the spawn line, with speed 200 or 250, falling
\* or set to rise from below the window
ItemInputs ==
  {NewItem(0, 100 * FP, 50 * FP, s * FP, 0, FALSE) : s \in {200, BaseSpeed}} \cup
  {NewItem(0, 100 * FP, -SpawnY * FP, s * FP, 0, FALSE) : s \in {200, BaseSpeed}} \cup
  {NewItem(0, 100 * FP, (InnerHeight + SpawnY) * FP, s * FP, 0, TRUE) : s \in {200, BaseSpeed}}

\* Items with a horizontal velocity, as the constructor draws it from
\* (-10, 10): near the left edge, in the window and near the right edge,
\* falling from y = 50 or rising from below the window
DriftXs == {5, 100, 355}
DriftVelocities == {-8, 8}

DriftInputs ==
  {NewItem(0, x * FP, 50 * FP, BaseSpeed * FP, vx * FP, FALSE) :
     x \in DriftXs, vx \in DriftVelocities} \cup
  {NewItem(0, x * FP, (InnerHeight + SpawnY) * FP, BaseSpeed * FP, vx * FP, TRUE) :
     x \in DriftXs, vx \in DriftVelocities}

\* UpgradeManager.getRisingChance(), getRisingAutoClickRate() and
\* getRisingValueMultiplier() are called by Game but are not part of the
\* UpgradeManager at hand.  The chance is some probability below 1, the
\* rate some number of items per second; the value multiplier is the 1.5
\* of RisingBallsUpgrade.
RisingChances == {Rat(0, 1), Rat(1, 10)}
RisingAutoClickRates == {Rat(0, 1), Rat(2, 1)}
getRisingValueMultiplier == Rat(3, 2)

\* Records found in localStorage that this session did not write: saves of
\* another build or tab, edited or damaged saves.
RecOlder ==
  JObj(JNum(0), JNum(1), JNum(3 * Frac),
       JArr(<<JEntry(JStr("autoclicker"), JNum(1)), JEntry(JStr("drop_rate"), JNum(0))>>))

RecOverMax(id) ==
  JObj(JNum(CURRENT_VERSION), JNum(1), JNum(2 * Frac + 1),
       JArr(<<JEntry(JStr(id), JNum(maxLevel(id) + ExtraLevels))>>))

RecUnknownId ==
  JObj(JNum(CURRENT_VERSION), JNum(1), JNum(4 * Frac),
       JArr(<<JEntry(JStr(UnknownId), JNum(3)), JEntry(JStr("autoclicker"), JNum(2))>>))

RecNewer ==
  JObj(JNum(CURRENT_VERSION + 1), JNum(1), JNum(6 * Frac),
       JArr(<<JEntry(JStr("autoclicker"), JNum(2))>>))

RecNegativeLevel ==
  JObj(JNum(CURRENT_VERSION), JNum(1), JNum(6 * Frac),
       JArr(<<JEntry(JStr("autoclicker"), JNum(2)), JEntry(JStr("multiplier"), JNum(-1))>>))

RecNonStringId ==
  JObj(JNum(CURRENT_VERSION), JNum(1), JNum(6 * Frac),
       JArr(<<JEntry(JStr("autoclicker"), JNum(2)), JEntry(JNum(7), JNum(1))>>))

RecNullEntry ==
  JObj(JNum(CURRENT_VERSION), JNum(1), JNum(6 * Frac),
       JArr(<<JEntry(JStr("autoclicker"), JNum(2)), JEntryNull>>))

RecCurrencyNotNumber ==
  JObj(JNum(CURRENT_VERSION), JNum(1), JStr("6"),
       JArr(<<JEntry(JStr("autoclicker"), JNum(2))>>))

RecUpgradesNotArray ==
  JObj(JNum(CURRENT_VERSION), JNum(1), JNum(6 * Frac), JNotArr)

\* A record that names the autoclicker twice, and a record that names the
\* drop rate upgrade alone
RecDuplicate ==
  JObj(JNum(CURRENT_VERSION), JNum(1), JNum(2 * Frac),
       JArr(<<JEntry(JStr("autoclicker"), JNum(2)), JEntry(JStr("autoclicker"), JNum(1))>>))

RecDropRate ==
  JObj(JNum(CURRENT_VERSION), JNum(1), JNum(Frac),
       JArr(<<JEntry(JStr("drop_rate"), JNum(1))>>))

\* The records loaded over levels that an earlier load has set
LoadRecords == {RecOlder, RecUnknownId, RecDuplicate, RecDropRate}

OverMaxIds == {"gravity", "critical_chance"}

ValidExternalRecords ==
  {RecOlder, RecUnknownId} \cup {RecOverMax(id) : id \in OverMaxIds}

InvalidExternalRecords ==
  {Garbage, JTop("null"), JTop("number"), JTop("array"), RecNewer, RecNegativeLevel,
   RecNonStringId, RecNullEntry, RecCurrencyNotNumber, RecUpgradesNotArray}

ExternalRecords == ValidExternalRecords \cup InvalidExternalRecords

----------------------------------------------------------------------------
(* Initial state: new Game(container) constructs UpgradeManager(0) and a   *)
(* SaveManager, and init() loads the stored save when there is one.        *)

\* What localStorage holds when the page is opened.
InitialStorage == {NoRecord, RecOlder}

FreshLevels == [id \in UpgradeIds |-> 0]

\* Game.loadSavedGame(): if (hasSave()) loadGame()
loadSavedGame(cur, lvl, stor) ==
  IF hasSave(stor) THEN loadGame(cur, lvl, stor, FALSE)
  ELSE [ret |-> FALSE, raised |-> FALSE, currency |-> cur, level |-> lvl, notified |-> <<>>]

Init ==
  \E stor \in InitialStorage :
    LET r == loadSavedGame(0, FreshLevels, stor)
    IN  /\ currency = r.currency
        /\ level = r.level
        /\ storage = stor
        /\ lastSaveTimestamp = 0
        /\ op = [name |-> "init", id |-> "", amount |-> 0]
        /\ ret = r.ret
        /\ raised = FALSE
        /\ notified = r.notified
        /\ autoSaveIntervalId = FALSE
        /\ autoSaveTimers = 0
        /\ items = <<>>
        /\ nextItemId = 0
        /\ timeSinceLastSpawn = 0
        /\ spawnRateMultiplier = Rat(11, 10)
        /\ speedMultiplier = Rat(1, 1)
        /\ isRunning = FALSE
        /\ pendingFrames = 0
        /\ autoClickTimer = 0
        /\ risingAutoClickTimer = 0
        /\ retValue = Rat(0, 1)
        /\ missedItems = <<>>
        /\ everMissed = {}
        /\ rewards = [id \in 0..(MaxItems - 1) |-> 0]

\* A save of a session that bought the critical chance once and spent
\* all its currency on it
RecCritical ==
  JObj(JNum(CURRENT_VERSION), JNum(1), JNum(0),
       JArr(<<JEntry(JStr("critical_chance"), JNum(1))>>))

\* new Game(container) and init() on a page whose storage holds RecCritical
InitCredit ==
  LET r == loadSavedGame(0, FreshLevels, RecCritical)
  IN  /\ currency = r.currency
      /\ level = r.level
      /\ storage = RecCritical
      /\ lastSaveTimestamp = 0
      /\ op = [name |-> "init", id |-> "", amount |-> 0]
      /\ ret = r.ret
      /\ raised = FALSE
      /\ notified = r.notified
      /\ autoSaveIntervalId = FALSE
      /\ autoSaveTimers = 0
      /\ items = <<>>
      /\ nextItemId = 0
      /\ timeSinceLastSpawn = 0
      /\ spawnRateMultiplier = Rat(11, 10)
      /\ speedMultiplier = Rat(1, 1)
      /\ isRunning = FALSE
      /\ pendingFrames = 0
      /\ autoClickTimer = 0
      /\ risingAutoClickTimer = 0
      /\ retValue = Rat(0, 1)
      /\ missedItems = <<>>
      /\ everMissed = {}
      /\ rewards = [id \in 0..(MaxItems - 1) |-> 0]

\* The upgrades looked at on their own: the levels the formulas are tried
\* on.  critical_chance at every level up to MaxCriticalLevel, the other
\* upgrades all new or all at their maxLevel.
LevelInputs ==
  {[id \in UpgradeIds |-> IF id = "critical_chance" THEN c
                          ELSE IF high THEN maxLevel(id) ELSE 0] :
     c \in 0..MaxCriticalLevel, high \in BOOLEAN}

\* new UpgradeManager(0), and the upgrades brought to the levels of LevelInputs
InitUpgrades ==
  /\ currency = 0
  /\ level \in LevelInputs
  /\ storage = NoRecord
  /\ lastSaveTimestamp = 0
  /\ op = [name |-> "init", id |-> "", amount |-> 0]
  /\ ret = FALSE
  /\ raised = FALSE
  /\ notified = <<>>
  /\ autoSaveIntervalId = FALSE
  /\ autoSaveTimers = 0
  /\ items = <<>>
  /\ nextItemId = 0
  /\ timeSinceLastSpawn = 0
  /\ spawnRateMultiplier = Rat(11, 10)
  /\ speedMultiplier = Rat(1, 1)
  /\ isRunning = FALSE
  /\ pendingFrames = 0
  /\ autoClickTimer = 0
  /\ risingAutoClickTimer = 0
  /\ retValue = Rat(0, 1)
  /\ missedItems = <<>>
  /\ everMissed = {}
  /\ rewards = [id \in 0..(MaxItems - 1) |-> 0]

\* The levels the three multipliers are read at: every combination of the
\* multiplier, drop_rate and gravity upgrades at 0..MaxEffectLevel
EffectLevelInputs ==
  {[id \in UpgradeIds |-> IF id = "multiplier" THEN m
                          ELSE IF id = "drop_rate" THEN d
                          ELSE IF id = "gravity" THEN g ELSE 0] :
     m \in 0..MaxEffectLevel, d \in 0..MaxEffectLevel, g \in 0..MaxEffectLevel}

\* new UpgradeManager(0), and the upgrades brought to the levels of
\* EffectLevelInputs
InitMultipliers ==
  /\ currency = 0
  /\ level \in EffectLevelInputs
  /\ storage = NoRecord
  /\ lastSaveTimestamp = 0
  /\ op = [name |-> "init", id |-> "", amount |-> 0]
  /\ ret = FALSE
  /\ raised = FALSE
  /\ notified = <<>>
  /\ autoSaveIntervalId = FALSE
  /\ autoSaveTimers = 0
  /\ items = <<>>
  /\ nextItemId = 0
  /\ timeSinceLastSpawn = 0
  /\ spawnRateMultiplier = Rat(11, 10)
  /\ speedMultiplier = Rat(1, 1)
  /\ isRunning = FALSE
  /\ pendingFrames = 0
  /\ autoClickTimer = 0
  /\ risingAutoClickTimer = 0
  /\ retValue = Rat(0, 1)
  /\ missedItems = <<>>
  /\ everMissed = {}
  /\ rewards = [id \in 0..(MaxItems - 1) |-> 0]

\* new UpgradeManager(MaxPurse): every upgrade at level 0
InitPurchases ==
  /\ currency = MaxPurse * Frac
  /\ level = FreshLevels
  /\ storage = NoRecord
  /\ lastSaveTimestamp = 0
  /\ op = [name |-> "init", id |-> "", amount |-> 0]
  /\ ret = FALSE
  /\ raised = FALSE
  /\ notified = <<>>
  /\ autoSaveIntervalId = FALSE
  /\ autoSaveTimers = 0
  /\ items = <<>>
  /\ nextItemId = 0
  /\ timeSinceLastSpawn = 0
  /\ spawnRateMultiplier = Rat(11, 10)
  /\ speedMultiplier = Rat(1, 1)
  /\ isRunning = FALSE
  /\ pendingFrames = 0
  /\ autoClickTimer = 0
  /\ risingAutoClickTimer = 0
  /\ retValue = Rat(0, 1)
  /\ missedItems = <<>>
  /\ everMissed = {}
  /\ rewards = [id \in 0..(MaxItems - 1) |-> 0]

\* Two items created next to each other
InitInert ==
  /\ currency = 0
  /\ level = FreshLevels
  /\ storage = NoRecord
  /\ lastSaveTimestamp = 0
  /\ op = [name |-> "init", id |-> "", amount |-> 0]
  /\ ret = FALSE
  /\ raised = FALSE
  /\ notified = <<>>
  /\ autoSaveIntervalId = FALSE
  /\ autoSaveTimers = 0
  /\ items \in InertPairs
  /\ nextItemId = 2
  /\ timeSinceLastSpawn = 0
  /\ spawnRateMultiplier = Rat(11, 10)
  /\ speedMultiplier = Rat(1, 1)
  /\ isRunning = FALSE
  /\ pendingFrames = 0
  /\ autoClickTimer = 0
  /\ risingAutoClickTimer = 0
  /\ retValue = Rat(0, 1)
  /\ missedItems = <<>>
  /\ everMissed = {}
  /\ rewards = [id \in 0..(MaxItems - 1) |-> 0]

\* One item with a horizontal velocity created on its own
InitDrift ==
  /\ currency = 0
  /\ level = FreshLevels
  /\ storage = NoRecord
  /\ lastSaveTimestamp = 0
  /\ op = [name |-> "init", id |-> "", amount |-> 0]
  /\ ret = FALSE
  /\ raised = FALSE
  /\ notified = <<>>
  /\ autoSaveIntervalId = FALSE
  /\ autoSaveTimers = 0
  /\ \E it \in DriftInputs : items = <<it>>
  /\ nextItemId = 1
  /\ timeSinceLastSpawn = 0
  /\ spawnRateMultiplier = Rat(11, 10)
  /\ speedMultiplier = Rat(1, 1)
  /\ isRunning = FALSE
  /\ pendingFrames = 0
  /\ autoClickTimer = 0
  /\ risingAutoClickTimer = 0
  /\ retValue = Rat(0, 1)
  /\ missedItems = <<>>
  /\ everMissed = {}
  /\ rewards = [id \in 0..(MaxItems - 1) |-> 0]

\* A game constructed over the save of an earlier session
InitDelete == Init /\ storage = RecOlder

\* One item created on its own
InitItem ==
  /\ currency = 0
  /\ level = FreshLevels
  /\ storage = NoRecord
  /\ lastSaveTimestamp = 0
  /\ op = [name |-> "init", id |-> "", amount |-> 0]
  /\ ret = FALSE
  /\ raised = FALSE
  /\ notified = <<>>
  /\ autoSaveIntervalId = FALSE
  /\ autoSaveTimers = 0
  /\ \E it \in ItemInputs : items = <<it>>
  /\ nextItemId = 1
  /\ timeSinceLastSpawn = 0
  /\ spawnRateMultiplier = Rat(11, 10)
  /\ speedMultiplier = Rat(1, 1)
  /\ isRunning = FALSE
  /\ pendingFrames = 0
  /\ autoClickTimer = 0
  /\ risingAutoClickTimer = 0
  /\ retValue = Rat(0, 1)
  /\ missedItems = <<>>
  /\ everMissed = {}
  /\ rewards = [id \in 0..(MaxItems - 1) |-> 0]

\* Two items created next to each other, as checkCollision meets them
InitCollision ==
  /\ currency = 0
  /\ level = FreshLevels
  /\ storage = NoRecord
  /\ lastSaveTimestamp = 0
  /\ op = [name |-> "init", id |-> "", amount |-> 0]
  /\ ret = FALSE
  /\ raised = FALSE
  /\ notified = <<>>
  /\ autoSaveIntervalId = FALSE
  /\ autoSaveTimers = 0
  /\ items \in CollisionPairs
  /\ nextItemId = 2
  /\ timeSinceLastSpawn = 0
  /\ spawnRateMultiplier = Rat(11, 10)
  /\ speedMultiplier = Rat(1, 1)
  /\ isRunning = FALSE
  /\ pendingFrames = 0
  /\ autoClickTimer = 0
  /\ risingAutoClickTimer = 0
  /\ retValue = Rat(0, 1)
  /\ missedItems = <<>>
  /\ everMissed = {}
  /\ rewards = [id \in 0..(MaxItems - 1) |-> 0]

----------------------------------------------------------------------------
(* Operations of the economy and of persistence *)

\* BaseUpgrade.upgrade() called on the upgrade id
UpgradeCall(id) ==
  /\ level[id] < MaxCostLevel
  /\ level' = [level EXCEPT ![id] = upgrade(id, @)]
  /\ op' = [name |-> "upgrade", id |-> id, amount |-> level[id]]
  /\ ret' = FALSE
  /\ raised' = FALSE
  /\ notified' = <<>>
  /\ UNCHANGED <<currency, storage, lastSaveTimestamp, gameVars>>

\* BaseUpgrade.getCurrentCost() called on the upgrade id; op.amount records
\* the level of the upgrade
GetCurrentCost(id) ==
  /\ level[id] <= MaxCostLevel
  /\ retValue' = Rat(getCurrentCost(id, level[id]), 1)
  /\ op' = [name |-> "getCurrentCost", id |-> id, amount |-> level[id]]
  /\ ret' = FALSE
  /\ raised' = FALSE
  /\ notified' = <<>>
  /\ UNCHANGED <<ecoVars, saveTimerVars, itemVars, loopVars, historyVars>>

\* UpgradeManager.getValueMultiplier()
GetValueMultiplier ==
  /\ retValue' = getValueMultiplier(level)
  /\ op' = [name |-> "getValueMultiplier", id |-> "", amount |-> 0]
  /\ ret' = FALSE
  /\ raised' = FALSE
  /\ notified' = <<>>
  /\ UNCHANGED <<ecoVars, saveTimerVars, itemVars, loopVars, historyVars>>

\* UpgradeManager.getDropRateMultiplier()
GetDropRateMultiplier ==
  /\ retValue' = getDropRateMultiplier(level)
  /\ op' = [name |-> "getDropRateMultiplier", id |-> "", amount |-> 0]
  /\ ret' = FALSE
  /\ raised' = FALSE
  /\ notified' = <<>>
  /\ UNCHANGED <<ecoVars, saveTimerVars, itemVars, loopVars, historyVars>>

\* UpgradeManager.getGravityMultiplier()
GetGravityMultiplier ==
  /\ retValue' = getGravityMultiplier(level)
  /\ op' = [name |-> "getGravityMultiplier", id |-> "", amount |-> 0]
  /\ ret' = FALSE
  /\ raised' = FALSE
  /\ notified' = <<>>
  /\ UNCHANGED <<ecoVars, saveTimerVars, itemVars, loopVars, historyVars>>

\* UpgradeManager.getCriticalChance()
GetCriticalChance ==
  /\ retValue' = getCriticalChance(level)
  /\ op' = [name |-> "getCriticalChance", id |-> "", amount |-> 0]
  /\ ret' = FALSE
  /\ raised' = FALSE
  /\ notified' = <<>>
  /\ UNCHANGED <<ecoVars, saveTimerVars, itemVars, loopVars, historyVars>>

\* UpgradeManager.purchaseUpgrade(id): the purchase intent of the panel
PurchaseUpgrade(id) ==
  LET r == purchaseUpgrade(currency, level, id)
  IN  /\ currency' = r.currency
      /\ level' = r.level
      /\ notified' = r.notified
      /\ ret' = r.ret
      /\ raised' = r.raised
      /\ op' = [name |-> "purchaseUpgrade", id |-> id, amount |-> 0]
      /\ UNCHANGED <<storage, lastSaveTimestamp, gameVars>>

\* UpgradeManager.addCurrency(amount)
AddCurrency(amount) ==
  /\ currency + MathRound(amount) <= MaxCurrency * Frac
  /\ LET r == addCurrency(currency, amount)
     IN  /\ currency' = r.currency
         /\ notified' = r.notified
  /\ ret' = FALSE
  /\ raised' = FALSE
  /\ op' = [name |-> "addCurrency", id |-> "", amount |-> amount]
  /\ UNCHANGED <<level, storage, lastSaveTimestamp, gameVars>>

\* UpgradeManager.setCurrency(amount)
SetCurrency(amount) ==
  /\ LET r == setCurrency(currency, amount)
     IN  /\ currency' = r.currency
         /\ notified' = r.notified
  /\ ret' = FALSE
  /\ raised' = FALSE
  /\ op' = [name |-> "setCurrency", id |-> "", amount |-> amount]
  /\ UNCHANGED <<level, storage, lastSaveTimestamp, gameVars>>

\* SaveManager.saveGame(): the save button, the autosave timer, beforeunload.
\* A throwing setItem is caught: nothing is written, lastSaveTimestamp stays.
SaveGame ==
  \E now \in Timestamps, writeThrows \in BOOLEAN :
    /\ storage' = saveGame(currency, level, storage, now, writeThrows)
    /\ lastSaveTimestamp' = IF writeThrows THEN lastSaveTimestamp ELSE now
    /\ ret' = ~writeThrows
    /\ raised' = FALSE
    /\ notified' = <<>>
    /\ op' = [name |-> "saveGame", id |-> "", amount |-> 0]
    /\ UNCHANGED <<currency, level, gameVars>>

\* A loadGame() that sets every upgrade to level 0 before it applies the record
LoadGameFromFresh ==
  \E readThrows \in BOOLEAN :
    LET r == loadGame(currency, level, storage, readThrows)
        f == loadGame(currency, FreshLevels, storage, readThrows)
    IN  /\ currency' = r.currency
        /\ level' = IF r.ret THEN f.level ELSE r.level
        /\ notified' = r.notified
        /\ ret' = r.ret
        /\ raised' = r.raised
        /\ op' = [name |-> "loadGame", id |-> "", amount |-> IF readThrows THEN 1 ELSE 0]
        /\ UNCHANGED <<storage, lastSaveTimestamp, gameVars>>

\* SaveManager.loadGame()
LoadGame ==
  \E readThrows \in BOOLEAN :
    LET r == loadGame(currency, level, storage, readThrows)
    IN  /\ currency' = r.currency
        /\ level' = r.level
        /\ notified' = r.notified
        /\ ret' = r.ret
        /\ raised' = r.raised
        /\ op' = [name |-> "loadGame", id |-> "", amount |-> IF readThrows THEN 1 ELSE 0]
        /\ UNCHANGED <<storage, lastSaveTimestamp, gameVars>>

\* A deleteSave() that resets the game and leaves the record in place
DeleteSaveKeepsRecord ==
  \E storageThrows \in BOOLEAN :
    /\ IF storageThrows
       THEN /\ UNCHANGED <<currency, level, storage, lastSaveTimestamp>>
            /\ notified' = <<>>
       ELSE LET r == resetGameState(currency, level)
            IN  /\ storage' = storage
                /\ lastSaveTimestamp' = 0
                /\ currency' = r.currency
                /\ level' = r.level
                /\ notified' = r.notified
    /\ ret' = ~storageThrows
    /\ raised' = FALSE
    /\ op' = [name |-> "deleteSave", id |-> "", amount |-> getTotalUpgradeLevels(level)]
    /\ UNCHANGED gameVars

\* SaveManager.deleteSave(): removeItem, lastSaveTimestamp = 0, clear,
\* resetGameState, return true; a throwing storage is caught before any of it.
\* op.amount records the total of the levels before the call.
DeleteSave ==
  \E storageThrows \in BOOLEAN :
    /\ IF storageThrows
       THEN /\ UNCHANGED <<currency, level, storage, lastSaveTimestamp>>
            /\ notified' = <<>>
       ELSE LET r == resetGameState(currency, level)
            IN  /\ storage' = NoRecord
                /\ lastSaveTimestamp' = 0
                /\ currency' = r.currency
                /\ level' = r.level
                /\ notified' = r.notified
    /\ ret' = ~storageThrows
    /\ raised' = FALSE
    /\ op' = [name |-> "deleteSave", id |-> "", amount |-> getTotalUpgradeLevels(level)]
    /\ UNCHANGED gameVars

\* Something else writes the save key.
ExternalWrite(rec) ==
  /\ storage' = rec
  /\ ret' = FALSE
  /\ raised' = FALSE
  /\ notified' = <<>>
  /\ op' = [name |-> "externalWrite", id |-> "", amount |-> 0]
  /\ UNCHANGED <<currency, level, lastSaveTimestamp, gameVars>>

----------------------------------------------------------------------------
(* Operations of the game loop *)

\* SaveManager.startAutoSave(): stopAutoSave(), then a new interval
startAutoSave(id, timers) ==
  [autoSaveIntervalId |-> TRUE, autoSaveTimers |-> (IF id THEN timers - 1 ELSE timers) + 1]

\* A stopAutoSave() that forgets the id without clearing the interval
stopAutoSaveForgets(id, timers) ==
  [autoSaveIntervalId |-> FALSE, autoSaveTimers |-> timers]

\* SaveManager.stopAutoSave(): clearInterval when the id is not null
stopAutoSave(id, timers) ==
  [autoSaveIntervalId |-> FALSE, autoSaveTimers |-> IF id THEN timers - 1 ELSE timers]

\* A start() without the test of isRunning
StartAgain ==
  /\ pendingFrames < MaxPendingFrames
  /\ LET a == startAutoSave(autoSaveIntervalId, autoSaveTimers)
     IN  /\ isRunning' = TRUE
         /\ pendingFrames' = pendingFrames + 1
         /\ autoSaveIntervalId' = a.autoSaveIntervalId
         /\ autoSaveTimers' = a.autoSaveTimers
  /\ op' = [name |-> "start", id |-> "", amount |-> 0]
  /\ ret' = isRunning
  /\ raised' = FALSE
  /\ notified' = <<>>
  /\ UNCHANGED <<ecoVars, itemVars, autoClickTimer, risingAutoClickTimer, retValue, historyVars>>

\* Game.start(); ret tells whether the game was running already, in which
\* case start() returns at once
Start ==
  /\ pendingFrames < MaxPendingFrames
  /\ IF isRunning
     THEN UNCHANGED <<isRunning, pendingFrames, saveTimerVars>>
     ELSE LET a == startAutoSave(autoSaveIntervalId, autoSaveTimers)
          IN  /\ isRunning' = TRUE
              /\ pendingFrames' = pendingFrames + 1
              /\ autoSaveIntervalId' = a.autoSaveIntervalId
              /\ autoSaveTimers' = a.autoSaveTimers
  /\ op' = [name |-> "start", id |-> "", amount |-> 0]
  /\ ret' = isRunning
  /\ raised' = FALSE
  /\ notified' = <<>>
  /\ UNCHANGED <<ecoVars, itemVars, autoClickTimer, risingAutoClickTimer, retValue, historyVars>>

\* Game.stop(): isRunning = false, stopAutoSave(), saveGame()
Stop ==
  \E now \in Timestamps, writeThrows \in BOOLEAN :
    LET a == stopAutoSave(autoSaveIntervalId, autoSaveTimers)
    IN  /\ isRunning' = FALSE
        /\ autoSaveIntervalId' = a.autoSaveIntervalId
        /\ autoSaveTimers' = a.autoSaveTimers
        /\ storage' = saveGame(currency, level, storage, now, writeThrows)
        /\ lastSaveTimestamp' = IF writeThrows THEN lastSaveTimestamp ELSE now
        /\ op' = [name |-> "stop", id |-> "", amount |-> 0]
        /\ ret' = ~writeThrows
        /\ raised' = FALSE
        /\ notified' = <<>>
        /\ UNCHANGED <<currency, level, itemVars, pendingFrames, autoClickTimer,
                       risingAutoClickTimer, retValue, historyVars>>

\* A timer callback that gives up after a failed save: it clears the
\* interval when setItem throws
AutoSaveFireStopsOnFailure ==
  /\ autoSaveTimers > 0
  /\ \E now \in Timestamps, writeThrows \in BOOLEAN :
       /\ storage' = saveGame(currency, level, storage, now, writeThrows)
       /\ lastSaveTimestamp' = IF writeThrows THEN lastSaveTimestamp ELSE now
       /\ ret' = ~writeThrows
       /\ autoSaveTimers' = IF writeThrows THEN autoSaveTimers - 1 ELSE autoSaveTimers
       /\ autoSaveIntervalId' = IF writeThrows THEN FALSE ELSE autoSaveIntervalId
  /\ op' = [name |-> "autoSave", id |-> "", amount |-> 0]
  /\ raised' = FALSE
  /\ notified' = <<>>
  /\ UNCHANGED <<currency, level, itemVars, loopVars, retValue, historyVars>>

\* SaveManager.startAutoSave() called on its own, on the SaveManager of a
\* running game
StartAutoSave ==
  /\ isRunning
  /\ LET a == startAutoSave(autoSaveIntervalId, autoSaveTimers)
     IN  /\ autoSaveIntervalId' = a.autoSaveIntervalId
         /\ autoSaveTimers' = a.autoSaveTimers
  /\ op' = [name |-> "startAutoSave", id |-> "", amount |-> 0]
  /\ ret' = autoSaveIntervalId
  /\ raised' = FALSE
  /\ notified' = <<>>
  /\ UNCHANGED <<ecoVars, itemVars, loopVars, retValue, historyVars>>

\* SaveManager.stopAutoSave() called on its own
StopAutoSave ==
  /\ LET a == stopAutoSave(autoSaveIntervalId, autoSaveTimers)
     IN  /\ autoSaveIntervalId' = a.autoSaveIntervalId
         /\ autoSaveTimers' = a.autoSaveTimers
  /\ op' = [name |-> "stopAutoSave", id |-> "", amount |-> 0]
  /\ ret' = autoSaveIntervalId
  /\ raised' = FALSE
  /\ notified' = <<>>
  /\ UNCHANGED <<ecoVars, itemVars, loopVars, retValue, historyVars>>

\* The callback of window.setInterval: saveGame()
AutoSaveFire ==
  /\ autoSaveTimers > 0
  /\ \E now \in Timestamps, writeThrows \in BOOLEAN :
       /\ storage' = saveGame(currency, level, storage, now, writeThrows)
       /\ lastSaveTimestamp' = IF writeThrows THEN lastSaveTimestamp ELSE now
       /\ ret' = ~writeThrows
  /\ op' = [name |-> "autoSave", id |-> "", amount |-> 0]
  /\ raised' = FALSE
  /\ notified' = <<>>
  /\ UNCHANGED <<currency, level, gameVars>>

\* A Game.update that runs ItemManager.update with the multipliers left
\* from the frame before and hands over the new ones afterwards
GameUpdateStaleMultipliers(dt, rollRising, randomX, vx, risingRate) ==
  LET srm == setSpawnRateMultiplier(getDropRateMultiplier(level))
      sm == setSpeedMultiplier(getGravityMultiplier(level))
      u == ItemManagerUpdate(items, nextItemId, timeSinceLastSpawn, spawnRateMultiplier,
                             speedMultiplier, dt, rollRising, randomX, vx)
      a == AutoClickSlots(autoClickTimer, getAutoClickRate(level), dt)
      c == IF a.itemsToCollect > 0
           THEN collectMultiple(u.items, a.itemsToCollect, FALSE,
                                getValueMultiplier(level), getRisingValueMultiplier)
           ELSE [items |-> u.items, chosenIds |-> {}, totalValue |-> 0]
      c1 == IF c.totalValue > 0 THEN addCurrency(currency, c.totalValue * Frac)
            ELSE [currency |-> currency, notified |-> <<>>]
      ra == AutoClickSlots(risingAutoClickTimer, risingRate, dt)
      rc == IF ra.itemsToCollect > 0
            THEN collectMultiple(c.items, ra.itemsToCollect, TRUE,
                                 getValueMultiplier(level), getRisingValueMultiplier)
            ELSE [items |-> c.items, chosenIds |-> {}, totalValue |-> 0]
      c2 == IF rc.totalValue > 0 THEN addCurrency(c1.currency, rc.totalValue * Frac)
            ELSE [currency |-> c1.currency, notified |-> <<>>]
      missed == Ids(u.missedItems)
  IN  /\ u.spawnedNow => nextItemId < MaxItems
      /\ c2.currency <= MaxCurrency * Frac
      /\ spawnRateMultiplier' = srm
      /\ speedMultiplier' = sm
      /\ items' = rc.items
      /\ nextItemId' = u.nextItemId
      /\ timeSinceLastSpawn' = u.timeSinceLastSpawn
      /\ autoClickTimer' = a.timer
      /\ risingAutoClickTimer' = ra.timer
      /\ currency' = c2.currency
      /\ notified' = c1.notified \o c2.notified
      /\ missedItems' = missed
      /\ everMissed' = everMissed \cup Range(missed)
      /\ rewards' = [id \in DOMAIN rewards |->
                       rewards[id] + (IF id \in c.chosenIds THEN 1 ELSE 0)
                                   + (IF id \in rc.chosenIds THEN 1 ELSE 0)]

\* Game.update(deltaTime): applyUpgradeEffects, ItemManager.update, the
\* falling auto-collector, the rising auto-collector.
GameUpdate(dt, rollRising, randomX, vx, risingRate) ==
  LET srm == setSpawnRateMultiplier(getDropRateMultiplier(level))
      sm == setSpeedMultiplier(getGravityMultiplier(level))
      u == ItemManagerUpdate(items, nextItemId, timeSinceLastSpawn, srm, sm,
                             dt, rollRising, randomX, vx)
      a == AutoClickSlots(autoClickTimer, getAutoClickRate(level), dt)
      c == IF a.itemsToCollect > 0
           THEN collectMultiple(u.items, a.itemsToCollect, FALSE,
                                getValueMultiplier(level), getRisingValueMultiplier)
           ELSE [items |-> u.items, chosenIds |-> {}, totalValue |-> 0]
      c1 == IF c.totalValue > 0 THEN addCurrency(currency, c.totalValue * Frac)
            ELSE [currency |-> currency, notified |-> <<>>]
      ra == AutoClickSlots(risingAutoClickTimer, risingRate, dt)
      rc == IF ra.itemsToCollect > 0
            THEN collectMultiple(c.items, ra.itemsToCollect, TRUE,
                                 getValueMultiplier(level), getRisingValueMultiplier)
            ELSE [items |-> c.items, chosenIds |-> {}, totalValue |-> 0]
      c2 == IF rc.totalValue > 0 THEN addCurrency(c1.currency, rc.totalValue * Frac)
            ELSE [currency |-> c1.currency, notified |-> <<>>]
      missed == Ids(u.missedItems)
  IN  /\ u.spawnedNow => nextItemId < MaxItems
      /\ c2.currency <= MaxCurrency * Frac
      /\ spawnRateMultiplier' = srm
      /\ speedMultiplier' = sm
      /\ items' = rc.items
      /\ nextItemId' = u.nextItemId
      /\ timeSinceLastSpawn' = u.timeSinceLastSpawn
      /\ autoClickTimer' = a.timer
      /\ risingAutoClickTimer' = ra.timer
      /\ currency' = c2.currency
      /\ notified' = c1.notified \o c2.notified
      /\ missedItems' = missed
      /\ everMissed' = everMissed \cup Range(missed)
      /\ rewards' = [id \in DOMAIN rewards |->
                       rewards[id] + (IF id \in c.chosenIds THEN 1 ELSE 0)
                                   + (IF id \in rc.chosenIds THEN 1 ELSE 0)]

\* Game.gameLoop(timestamp): a pending frame callback fires; it returns at
\* once when the game is not running, else it calls update(deltaTime) and
\* requests the next frame.
Frame(dt) ==
  /\ pendingFrames > 0
  /\ IF ~isRunning
     THEN /\ pendingFrames' = pendingFrames - 1
          /\ missedItems' = <<>>
          /\ notified' = <<>>
          /\ UNCHANGED <<currency, itemVars, autoClickTimer, risingAutoClickTimer,
                         everMissed, rewards>>
     ELSE /\ \E chance \in RisingChances, rollRising \in BOOLEAN,
                randomX \in SpawnXs, vx \in SpawnVelocities, risingRate \in RisingAutoClickRates :
               /\ rollRising => chance.n > 0
               /\ GameUpdate(dt, rollRising, randomX * FP, vx * FP, risingRate)
          /\ pendingFrames' = pendingFrames
  /\ op' = [name |-> "gameLoop", id |-> "", amount |-> dt]
  /\ ret' = isRunning
  /\ raised' = FALSE
  /\ UNCHANGED <<level, storage, lastSaveTimestamp, saveTimerVars, isRunning, retValue>>

\* A handleClick that credits the value of one item for every click,
\* whether or not collectItemAt found an item
HandleClickCreditsMiss(px, py, critical) ==
  LET r == collectItemAt(items, px, py, getRisingValueMultiplier)
      chance == getCriticalChance(level)
      base == RRound(RMul(RMax(r.collectedValue, Rat(BaseValue, 1)), getValueMultiplier(level)))
      finalValue == IF critical
                    THEN RRound(RMul(Rat(base, 1), getCriticalMultiplier(level)))
                    ELSE base
      c == addCurrency(currency, finalValue * Frac)
  IN  /\ c.currency <= MaxCurrency * Frac
      /\ critical => r.collectedValue.n > 0 /\ chance.n > 0
      /\ ~critical => r.collectedValue.n = 0 \/ RLess(chance, Rat(1, 1))
      /\ items' = r.items
      /\ currency' = c.currency
      /\ notified' = c.notified
      /\ retValue' = r.collectedValue
      /\ ret' = (r.hit # 0)
      /\ rewards' = IF r.hit = 0 THEN rewards
                    ELSE [rewards EXCEPT ![items[r.hit].id] = @ + 1]
      /\ op' = [name |-> "handleClick", id |-> IF critical THEN "critical" ELSE "",
                amount |-> 0, x |-> px, y |-> py]
      /\ raised' = FALSE
      /\ UNCHANGED <<level, storage, lastSaveTimestamp, saveTimerVars, nextItemId,
                     timeSinceLastSpawn, spawnRateMultiplier, speedMultiplier, loopVars,
                     missedItems, everMissed>>

\* Game.handleClick(event): collectItemAt, then the value multiplier, the
\* critical roll and addCurrency; critical is the outcome of
\* "Math.random() < criticalChance".  op records the point of the click.
HandleClick(px, py, critical) ==
  LET r == collectItemAt(items, px, py, getRisingValueMultiplier)
      chance == getCriticalChance(level)
      base == RRound(RMul(r.collectedValue, getValueMultiplier(level)))
      finalValue == IF critical
                    THEN RRound(RMul(Rat(base, 1), getCriticalMultiplier(level)))
                    ELSE base
      c == IF r.collectedValue.n > 0 THEN addCurrency(currency, finalValue * Frac)
           ELSE [currency |-> currency, notified |-> <<>>]
  IN  /\ c.currency <= MaxCurrency * Frac
      /\ critical => r.collectedValue.n > 0 /\ chance.n > 0
      /\ ~critical => r.collectedValue.n = 0 \/ RLess(chance, Rat(1, 1))
      /\ items' = r.items
      /\ currency' = c.currency
      /\ notified' = c.notified
      /\ retValue' = r.collectedValue
      /\ ret' = (r.hit # 0)
      /\ rewards' = IF r.hit = 0 THEN rewards
                    ELSE [rewards EXCEPT ![items[r.hit].id] = @ + 1]
      /\ op' = [name |-> "handleClick", id |-> IF critical THEN "critical" ELSE "",
                amount |-> 0, x |-> px, y |-> py]
      /\ raised' = FALSE
      /\ UNCHANGED <<level, storage, lastSaveTimestamp, saveTimerVars, nextItemId,
                     timeSinceLastSpawn, spawnRateMultiplier, speedMultiplier, loopVars,
                     missedItems, everMissed>>

\* Item.collect() called on an item of the Map
ItemCollect(i) ==
  LET c == collect(items[i])
  IN  /\ items' = [items EXCEPT ![i] = c.item]
      /\ retValue' = Rat(c.value, 1)
      /\ ret' = items[i].isCollected
      /\ op' = [name |-> "collect", id |-> "", amount |-> items[i].id]
      /\ raised' = FALSE
      /\ notified' = <<>>
      /\ UNCHANGED <<ecoVars, saveTimerVars, nextItemId, timeSinceLastSpawn,
                     spawnRateMultiplier, speedMultiplier, loopVars, historyVars>>

\* ItemManager.update(deltaTime, risingChance) called on the manager.
\* ret tells whether the call spawned an item.
ManagerUpdate(dt, rollRising, randomX, vx) ==
  LET u == ItemManagerUpdate(items, nextItemId, timeSinceLastSpawn, spawnRateMultiplier,
                             speedMultiplier, dt, rollRising, randomX, vx)
  IN  /\ u.spawnedNow => nextItemId < MaxItems
      /\ items' = u.items
      /\ nextItemId' = u.nextItemId
      /\ timeSinceLastSpawn' = u.timeSinceLastSpawn
      /\ missedItems' = Ids(u.missedItems)
      /\ everMissed' = everMissed \cup Range(Ids(u.missedItems))
      /\ op' = [name |-> "update", id |-> IF rollRising THEN "rising" ELSE "", amount |-> dt]
      /\ ret' = u.spawnedNow
      /\ raised' = FALSE
      /\ notified' = <<>>
      /\ UNCHANGED <<ecoVars, saveTimerVars, spawnRateMultiplier, speedMultiplier, loopVars,
                     retValue, rewards>>

\* ItemManager.collectItemAt(x, y, risingValueMultiplier) called on the manager
ManagerCollectItemAt(px, py, m) ==
  LET r == collectItemAt(items, px, py, m)
  IN  /\ items' = r.items
      /\ retValue' = r.collectedValue
      /\ ret' = (r.hit # 0)
      /\ op' = [name |-> "collectItemAt", id |-> "", amount |-> 0, x |-> px, y |-> py, m |-> m]
      /\ raised' = FALSE
      /\ notified' = <<>>
      /\ UNCHANGED <<ecoVars, saveTimerVars, nextItemId, timeSinceLastSpawn,
                     spawnRateMultiplier, speedMultiplier, loopVars, historyVars>>

\* ItemManager.setSpawnRateMultiplier(multiplier) called on the manager
ManagerSetSpawnRateMultiplier(m) ==
  /\ spawnRateMultiplier' = setSpawnRateMultiplier(m)
  /\ op' = [name |-> "setSpawnRateMultiplier", id |-> "", amount |-> 0]
  /\ ret' = FALSE
  /\ raised' = FALSE
  /\ notified' = <<>>
  /\ UNCHANGED <<ecoVars, saveTimerVars, items, nextItemId, timeSinceLastSpawn,
                 speedMultiplier, loopVars, retValue, historyVars>>

\* ItemManager.setSpeedMultiplier(multiplier) called on the manager; op
\* records the multiplier
ManagerSetSpeedMultiplier(m) ==
  /\ speedMultiplier' = setSpeedMultiplier(m)
  /\ op' = [name |-> "setSpeedMultiplier", id |-> "", amount |-> 0, m |-> m]
  /\ ret' = FALSE
  /\ raised' = FALSE
  /\ notified' = <<>>
  /\ UNCHANGED <<ecoVars, saveTimerVars, items, nextItemId, timeSinceLastSpawn,
                 spawnRateMultiplier, loopVars, retValue, historyVars>>

\* items[i].update(deltaTime) called on an item that is inside the window;
\* ret is the boolean returned, op records the item and deltaTime
ItemUpdateCall(i, dt) ==
  LET it == items[i]
      after == ItemUpdate(it, dt)
  IN  /\ ~OffScreen(it)
      /\ items' = [items EXCEPT ![i] = after]
      /\ ret' = ~it.isCollected /\ ~(it.isRising /\ after.y < -ItemHeight * FP)
      /\ op' = [name |-> "itemUpdate", id |-> "", amount |-> i, dt |-> dt]
      /\ raised' = FALSE
      /\ notified' = <<>>
      /\ UNCHANGED <<ecoVars, saveTimerVars, nextItemId, timeSinceLastSpawn,
                     spawnRateMultiplier, speedMultiplier, loopVars, retValue, historyVars>>

\* Game.collectMultipleItems(count) (rising = FALSE) and
\* Game.collectMultipleRisingItems(count) (rising = TRUE), as the two
\* auto-collectors call them with the slots they were granted;
\* retValue is the total value handed to addCurrency
CollectMultiple(count, rising) ==
  LET c == collectMultiple(items, count, rising, getValueMultiplier(level),
                           getRisingValueMultiplier)
      a == IF c.totalValue > 0 THEN addCurrency(currency, c.totalValue * Frac)
           ELSE [currency |-> currency, notified |-> <<>>]
  IN  /\ a.currency <= MaxCurrency * Frac
      /\ items' = c.items
      /\ currency' = a.currency
      /\ notified' = a.notified
      /\ retValue' = Rat(c.totalValue, 1)
      /\ ret' = (c.chosenIds # {})
      /\ rewards' = [id \in DOMAIN rewards |->
                       rewards[id] + (IF id \in c.chosenIds THEN 1 ELSE 0)]
      /\ op' = [name |-> IF rising THEN "collectMultipleRisingItems"
                                   ELSE "collectMultipleItems",
                id |-> "", amount |-> count]
      /\ raised' = FALSE
      /\ UNCHANGED <<level, storage, lastSaveTimestamp, saveTimerVars, nextItemId,
                     timeSinceLastSpawn, spawnRateMultiplier, speedMultiplier, loopVars,
                     missedItems, everMissed>>

\* A clear() that starts the ids again from 0
ManagerClearRestartsIds ==
  /\ items' = clear(items)
  /\ nextItemId' = 0
  /\ op' = [name |-> "clear", id |-> "", amount |-> Len(items)]
  /\ ret' = FALSE
  /\ raised' = FALSE
  /\ notified' = <<>>
  /\ UNCHANGED <<ecoVars, saveTimerVars, timeSinceLastSpawn, spawnRateMultiplier,
                 speedMultiplier, loopVars, retValue, historyVars>>

\* ItemManager.clear() called on the manager; op.amount records how many
\* items the Map held
ManagerClear ==
  /\ items' = clear(items)
  /\ nextItemId' = nextItemId
  /\ op' = [name |-> "clear", id |-> "", amount |-> Len(items)]
  /\ ret' = FALSE
  /\ raised' = FALSE
  /\ notified' = <<>>
  /\ UNCHANGED <<ecoVars, saveTimerVars, timeSinceLastSpawn, spawnRateMultiplier,
                 speedMultiplier, loopVars, retValue, historyVars>>

\* items[i].checkCollision(items[j]); ret is the boolean returned
CheckCollision(i, j) ==
  LET c == checkCollision(items[i], items[j])
  IN  /\ items' = [items EXCEPT ![i] = c.this, ![j] = c.other]
      /\ ret' = c.collision
      /\ op' = [name |-> "checkCollision", id |-> "", amount |-> i, other |-> j]
      /\ raised' = FALSE
      /\ notified' = <<>>
      /\ UNCHANGED <<ecoVars, saveTimerVars, nextItemId, timeSinceLastSpawn,
                     spawnRateMultiplier, speedMultiplier, loopVars, retValue, historyVars>>

NextGame ==
  \/ Start
  \/ Stop
  \/ AutoSaveFire
  \/ \E dt \in DeltaTimes : Frame(dt)
  \/ \E pt \in ClickPoints(items), critical \in BOOLEAN : HandleClick(pt[1], pt[2], critical)
  \/ \E i \in 1..Len(items) : ItemCollect(i)

SpecGame == Init /\ [][NextGame]_vars

\* A session of play: the running loop, clicks, purchases, the autosave
\* timer, and the load and delete of the save controls.
NextSession ==
  \/ Start
  \/ AutoSaveFire
  \/ \E dt \in DeltaTimes : Frame(dt)
  \/ \E pt \in ClickPoints(items), critical \in BOOLEAN : HandleClick(pt[1], pt[2], critical)
  \/ \E id \in AnyIds : PurchaseUpgrade(id)
  \/ LoadGame
  \/ DeleteSave

SpecSession == Init /\ [][NextSession]_vars

\* The running loop on its own: start and frames of two lengths
NextLoop ==
  \/ Start
  \/ \E dt \in LoopDeltaTimes : Frame(dt)

SpecLoop == Init /\ [][NextLoop]_vars

\* The upgrades on their own
NextUpgrades ==
  \/ \E id \in UpgradeIds : UpgradeCall(id)
  \/ \E id \in UpgradeIds : GetCurrentCost(id)
  \/ GetCriticalChance

SpecUpgrades == InitUpgrades /\ [][NextUpgrades]_vars

\* The ItemManager on its own
NextItems ==
  \/ \E dt \in TickTimes, rollRising \in BOOLEAN, randomX \in SpawnXs, vx \in SpawnVelocities :
       ManagerUpdate(dt, rollRising, randomX * FP, vx * FP)
  \/ \E pt \in ManagerPoints(items), m \in RisingValueMultipliers :
       ManagerCollectItemAt(pt[1], pt[2], m)
  \/ \E m \in SpawnRateMultipliers : ManagerSetSpawnRateMultiplier(m)

SpecItems == Init /\ [][NextItems]_vars

\* The ItemManager spawning, moving and clearing
NextSpawn ==
  \/ \E dt \in TickTimes, rollRising \in BOOLEAN, randomX \in SpawnXs, vx \in SpawnVelocities :
       ManagerUpdate(dt, rollRising, randomX * FP, vx * FP)
  \/ ManagerClear

SpecSpawn == Init /\ [][NextSpawn]_vars

\* The items ticking and the two collectors called with 1..MaxItems slots
NextCollectors ==
  \/ \E dt \in TickTimes, rollRising \in BOOLEAN, randomX \in SpawnXs, vx \in SpawnVelocities :
       ManagerUpdate(dt, rollRising, randomX * FP, vx * FP)
  \/ \E count \in 1..MaxItems, rising \in BOOLEAN : CollectMultiple(count, rising)

SpecCollectors == Init /\ [][NextCollectors]_vars

\* Clicks and frames of a game whose critical chance is above 0
NextCredit ==
  \/ Start
  \/ \E dt \in DeltaTimes : Frame(dt)
  \/ \E pt \in ClickPoints(items), critical \in BOOLEAN : HandleClick(pt[1], pt[2], critical)

SpecCredit == InitCredit /\ [][NextCredit]_vars

\* The three multipliers read at fixed levels
NextMultipliers ==
  \/ GetValueMultiplier
  \/ GetDropRateMultiplier
  \/ GetGravityMultiplier

SpecMultipliers == InitMultipliers /\ [][NextMultipliers]_vars

\* Purchases of every upgrade up to level MaxEffectLevel
NextPurchases ==
  \E id \in UpgradeIds : level[id] < MaxEffectLevel /\ PurchaseUpgrade(id)

SpecPurchases == InitPurchases /\ [][NextPurchases]_vars

\* The ItemManager spawning under the multipliers it is handed
NextSpeed ==
  \/ \E dt \in TickTimes, rollRising \in BOOLEAN, randomX \in SpawnXs, vx \in SpawnVelocities :
       ManagerUpdate(dt, rollRising, randomX * FP, vx * FP)
  \/ \E m \in SpawnRateMultipliers : ManagerSetSpawnRateMultiplier(m)
  \/ \E m \in SpeedMultipliers : ManagerSetSpeedMultiplier(m)

SpecSpeed == Init /\ [][NextSpeed]_vars

\* Two items collected and checked for a collision, and update() called
\* on the collected ones
NextInert ==
  \/ \E i \in 1..Len(items), dt \in TickTimes : items[i].isCollected /\ ItemUpdateCall(i, dt)
  \/ \E i \in 1..Len(items) : ItemCollect(i)
  \/ \E i \in 1..Len(items), j \in 1..Len(items) : i # j /\ CheckCollision(i, j)

SpecInert == InitInert /\ [][NextInert]_vars

\* One drifting item updated
NextDrift ==
  \E i \in 1..Len(items), dt \in TickTimes : ItemUpdateCall(i, dt)

SpecDrift == InitDrift /\ [][NextDrift]_vars

\* The loop and the autosave timer started and stopped
NextTimers ==
  \/ Start
  \/ Stop
  \/ AutoSaveFire
  \/ \E dt \in DeltaTimes : Frame(dt)
  \/ StartAutoSave
  \/ StopAutoSave

SpecTimers == Init /\ [][NextTimers]_vars

\* Records written to the save key and loaded one after the other
NextLoad ==
  \/ LoadGame
  \/ SaveGame
  \/ DeleteSave
  \/ \E rec \in LoadRecords : ExternalWrite(rec)

SpecLoad == Init /\ [][NextLoad]_vars

\* A session that deletes its save: purchases, the three ways of saving,
\* loading and deleting
NextDelete ==
  \/ Start
  \/ Stop
  \/ AutoSaveFire
  \/ SaveGame
  \/ LoadGame
  \/ DeleteSave
  \/ \E id \in UpgradeIds : PurchaseUpgrade(id)

SpecDelete == InitDelete /\ [][NextDelete]_vars

\* One item updated and collected
NextItem ==
  \/ \E i \in 1..Len(items), dt \in TickTimes : ItemUpdateCall(i, dt)
  \/ \E i \in 1..Len(items) : ItemCollect(i)

SpecItem == InitItem /\ [][NextItem]_vars

\* Two items colliding
NextCollision ==
  \E i \in 1..Len(items), j \in 1..Len(items) : i # j /\ CheckCollision(i, j)

SpecCollision == InitCollision /\ [][NextCollision]_vars

\* The running game and its storage failing: the loop, the autosave timer,
\* the save and load buttons, a stored text that JSON.parse rejects
NextPersistence ==
  \/ Start
  \/ Stop
  \/ AutoSaveFire
  \/ \E dt \in DeltaTimes : Frame(dt)
  \/ SaveGame
  \/ LoadGame
  \/ ExternalWrite(Garbage)

SpecPersistence == Init /\ [][NextPersistence]_vars

NextEconomy ==
  \/ \E id \in AnyIds : PurchaseUpgrade(id)
  \/ \E amount \in AddAmounts : AddCurrency(amount)
  \/ \E amount \in SetAmounts : SetCurrency(amount)
  \/ SaveGame
  \/ LoadGame
  \/ DeleteSave
  \/ \E rec \in ExternalRecords : ExternalWrite(rec)

SpecEconomy == Init /\ [][NextEconomy]_vars

Next ==
  NextEconomy \/ NextGame \/ NextSession \/ NextLoop \/ NextUpgrades \/ NextItems \/ NextCollision
    \/ NextPersistence \/ NextSpawn \/ NextItem \/ NextCollectors \/ NextCredit
    \/ NextMultipliers \/ NextPurchases \/ NextSpeed
    \/ NextInert \/ NextDrift \/ NextTimers \/ NextLoad
    \/ NextDelete

Spec == Init /\ [][Next]_vars

----------------------------------------------------------------------------
(* Properties of the economy and of persistence, checked on SpecEconomy   *)

\* C1: when purchaseUpgrade(id) returns true, currency has gone down by
\* getCurrentCost() as it was before the call, the level of id is exactly 1
\* higher and every other level is unchanged; when it returns false,
\* currency and every level are unchanged.
PurchaseAtomic ==
  [][op'.name = "purchaseUpgrade" =>
       IF ret'
       THEN /\ op'.id \in UpgradeIds
            /\ currency' = currency - Frac * getCurrentCost(op'.id, level[op'.id])
            /\ level'[op'.id] = level[op'.id] + 1
            /\ \A other \in UpgradeIds \ {op'.id} : level'[other] = level[other]
       ELSE currency' = currency /\ level' = level]_vars

\* A purchase made at a level whose cost differs from the cost one level up
PurchaseAtomicWitness ==
  /\ op.name = "purchaseUpgrade"
  /\ ret
  /\ level[op.id] >= 2
  /\ getCurrentCost(op.id, level[op.id] - 1) # getCurrentCost(op.id, level[op.id])

\* C2: purchaseUpgrade(id) returns true exactly when id is in the catalog,
\* the level is below maxLevel and currency >= the current cost, which are
\* exactly the states where canPurchaseUpgrade(id) is true; otherwise it
\* returns false and does not raise; a successful purchase does not take a
\* non-negative currency below 0.
PurchaseIffAffordable ==
  [][op'.name = "purchaseUpgrade" =>
       LET id == op'.id
           allowed == /\ id \in UpgradeIds
                      /\ level[id] < maxLevel(id)
                      /\ currency >= Frac * getCurrentCost(id, level[id])
       IN  /\ ret' <=> allowed
           /\ canPurchaseUpgrade(currency, level, id) <=> allowed
           /\ ~raised'
           /\ (ret' /\ currency >= 0) => currency' >= 0]_vars

\* A purchase that took the whole currency, and the three refusals
PurchaseIffAffordableWitness ==
  /\ op.name = "purchaseUpgrade"
  /\ ret
  /\ currency = 0

PurchaseRefusedWitness ==
  /\ op.name = "purchaseUpgrade"
  /\ ~ret
  /\ \/ op.id = UnknownId
     \/ op.id \in UpgradeIds /\ level[op.id] = maxLevel(op.id)
     \/ op.id \in UpgradeIds /\ level[op.id] < maxLevel(op.id) /\ currency > 0

\* C3: every upgrade has 0 <= level <= maxLevel in every state, whatever
\* purchases, loads (also of records whose levels exceed maxLevel) and
\* deletes came before; upgrade() called maxLevel + N times from level 0
\* ends at maxLevel with canUpgrade() false.
LevelBound ==
  /\ \A id \in UpgradeIds : 0 <= level[id] /\ level[id] <= maxLevel(id)
  /\ \A id \in UpgradeIds : \A n \in 1..ExtraLevels :
       /\ Replay(id, 0, maxLevel(id) + n) = maxLevel(id)
       /\ ~canUpgrade(id, Replay(id, 0, maxLevel(id) + n))

\* A record with a level above maxLevel has been loaded
LevelBoundWitness ==
  /\ op.name = "loadGame"
  /\ ret
  /\ \E id \in OverMaxIds : storage = RecOverMax(id) /\ level[id] = maxLevel(id)

\* C5: currency is a whole number in every state, and addCurrency and
\* setCurrency notify the listener with the stored, whole value.
CurrencyWhole ==
  /\ IsWhole(currency)
  /\ op.name \in {"addCurrency", "setCurrency"} => notified = <<currency>> /\ IsWhole(notified[1])

\* C6: after saveGame() has written the record, loadGame() into a freshly
\* constructed UpgradeManager returns true and yields the same currency and
\* the same level for every upgrade.
SaveLoadRoundTrip ==
  (op.name = "saveGame" /\ ret) =>
    LET fresh == loadGame(0, FreshLevels, storage, FALSE)
    IN  /\ fresh.ret
        /\ fresh.currency = currency
        /\ \A id \in UpgradeIds : fresh.level[id] = level[id]

\* A save of a state with currency and more than one upgraded level
SaveLoadRoundTripWitness ==
  /\ op.name = "saveGame"
  /\ ret
  /\ currency > 0
  /\ \E a, b \in UpgradeIds : a # b /\ level[a] > 0 /\ level[b] > 0

\* The records C7 speaks of: missing, wrong top-level shape, an entry with a
\* non-string id or a negative level, a version above the supported one.
RejectedRecords == {NoRecord} \cup InvalidExternalRecords

\* C7: loadGame() on such a record returns false, leaves currency and every
\* level as before the call and notifies nobody.
LoadRejectsInvalid ==
  [][(op'.name = "loadGame" /\ storage \in RejectedRecords) =>
       /\ ~ret'
       /\ ~raised'
       /\ currency' = currency
       /\ level' = level
       /\ notified' = <<>>]_vars

\* A record of the next version refused by a manager that has currency and levels
LoadRejectsInvalidWitness ==
  /\ op.name = "loadGame"
  /\ op.amount = 0
  /\ ~ret
  /\ storage = RecNewer
  /\ currency > 0
  /\ level["autoclicker"] = 1

\* C8: a valid record that also names an upgrade outside the catalog is
\* loaded: loadGame() returns true, currency and the levels of the known
\* ids are applied, and the unknown entry creates and alters nothing.
LoadSkipsUnknownIds ==
  [][(op'.name = "loadGame" /\ op'.amount = 0 /\ storage = RecUnknownId) =>
       /\ ret'
       /\ currency' = 4 * Frac
       /\ DOMAIN level' = UpgradeIds
       /\ level'["autoclicker"] = 2
       /\ \A id \in UpgradeIds \ {"autoclicker"} : level'[id] = level[id]]_vars

\* The record with the unknown id loaded over a state with another level set
LoadSkipsUnknownIdsWitness ==
  /\ op.name = "loadGame"
  /\ ret
  /\ storage = RecUnknownId
  /\ level["autoclicker"] = 2
  /\ level["gravity"] > 0


\* The level an upgrade has after the loop of loadGame: upgrade() called
\* n times on level 0
RECURSIVE UpgradeTimes(_, _)
UpgradeTimes(id, n) == IF n = 0 THEN 0 ELSE upgrade(id, UpgradeTimes(id, n - 1))

\* C26: when loadGame() returns true, currency is the currency of the
\* record, and every upgrade of the catalog that the record names has the
\* smaller of the recorded level and maxLevel, whatever level it had before,
\* which is the level that upgrade() called that many times on level 0
\* gives; an upgrade the record does not name keeps its level.
LoadAppliesRecord ==
  [][(op'.name = "loadGame" /\ ret') =>
       /\ currency' = storage.currency.n
       /\ \A i \in 1..Len(storage.upgrades.a) :
            LET id == storage.upgrades.a[i].id.s
                recorded == storage.upgrades.a[i].level.n
            IN  id \in UpgradeIds =>
                  /\ level'[id] = Min(recorded, maxLevel(id))
                  /\ level'[id] = UpgradeTimes(id, recorded)
       /\ \A id \in UpgradeIds :
            (\A i \in 1..Len(storage.upgrades.a) : storage.upgrades.a[i].id.s # id) =>
              level'[id] = level[id]]_vars

\* A record with less currency and a lower autoclicker level than the
\* manager had was loaded over levels that an earlier load had brought to
\* maxLevel
LoadAppliesRecordWitness ==
  /\ op.name = "loadGame" /\ ret
  /\ storage = RecOlder
  /\ currency = 3 * Frac
  /\ level["autoclicker"] = 1 /\ level["drop_rate"] = 0
  /\ \E id \in OverMaxIds : level[id] = maxLevel(id)

\* A record naming a level above maxLevel was loaded
LoadCapsLevelWitness ==
  /\ op.name = "loadGame" /\ ret
  /\ storage = RecOverMax("gravity")
  /\ currency = 2 * Frac + 1
  /\ level["gravity"] = maxLevel("gravity")
  /\ level["autoclicker"] > 0

----------------------------------------------------------------------------
(* Properties of a session of play, checked on SpecSession                 *)

\* The levels a record holds for an upgrade id
RecordedLevels(stor, id) ==
  IF stor.kind # "json" \/ stor.top # "object" \/ stor.upgrades.t # "array" THEN {}
  ELSE {stor.upgrades.a[i].level.n :
          i \in {k \in 1..Len(stor.upgrades.a) : stor.upgrades.a[k].id = JStr(id)}}

\* C4 as stated: no operation lowers a level, and a level changes only by
\* a successful purchase, which raises that one level by exactly 1.
LevelOnlyIncreases ==
  [][/\ \A id \in UpgradeIds : level'[id] >= level[id]
     /\ level' # level =>
          /\ op'.name = "purchaseUpgrade"
          /\ ret'
          /\ level' = [level EXCEPT ![op'.id] = @ + 1]]_vars

\* C4, amended: purchases, saves, the autosave, ticks and clicks never lower
\* a level, and the only change among them is a successful purchase raising
\* one level by exactly 1; a successful loadGame() sets every recorded
\* upgrade to the recorded level capped at maxLevel, higher or lower than
\* before, and a successful deleteSave() sets every level to 0.
LevelChanges ==
  [][/\ op'.name \notin {"loadGame", "deleteSave"} =>
          /\ \A id \in UpgradeIds : level'[id] >= level[id]
          /\ level' # level =>
               /\ op'.name = "purchaseUpgrade"
               /\ ret'
               /\ level' = [level EXCEPT ![op'.id] = @ + 1]
     /\ op'.name = "loadGame" =>
          IF ret'
          THEN \A id \in UpgradeIds :
                 IF RecordedLevels(storage, id) = {}
                 THEN level'[id] = level[id]
                 ELSE level'[id] \in {Min(n, maxLevel(id)) : n \in RecordedLevels(storage, id)}
          ELSE level' = level
     /\ op'.name = "deleteSave" =>
          IF ret'
          THEN \A id \in UpgradeIds : level'[id] = 0
          ELSE level' = level]_vars

\* deleteSave() has reset levels that a purchase had raised during play
LevelChangesWitness ==
  /\ op.name = "deleteSave"
  /\ ret
  /\ op.amount >= 2
  /\ \A id \in UpgradeIds : level[id] = 0
  /\ nextItemId > 0

----------------------------------------------------------------------------
(* Properties of the items, checked on SpecGame                            *)

\* C9: whatever the interleaving of clicks, falling and rising
\* auto-collection, an item is credited at most once and a collected item
\* stays collected and is not credited again; Item.collect() on a collected
\* item returns its baseValue and changes nothing; collectItemAt collects
\* one uncollected item under the point, and returns 0 and changes nothing
\* when no uncollected item is under the point.
CollectedOnce ==
  [][/\ \A id \in DOMAIN rewards : rewards'[id] <= 1
     /\ \A i \in 1..Len(items) : \A j \in 1..Len(items') :
          (items[i].id = items'[j].id /\ items[i].isCollected) =>
            /\ items'[j].isCollected
            /\ rewards'[items[i].id] = rewards[items[i].id]
     /\ (op'.name = "collect" /\ ret') =>
          /\ \E i \in 1..Len(items) :
               items[i].id = op'.amount /\ retValue' = Rat(items[i].baseValue, 1)
          /\ items' = items
          /\ currency' = currency
          /\ rewards' = rewards
     /\ op'.name = "handleClick" =>
          LET under == {i \in 1..Len(items) :
                          ~items[i].isCollected /\ containsPoint(items[i], op'.x, op'.y)}
          IN  IF under = {}
              THEN /\ retValue' = Rat(0, 1)
                   /\ items' = items
                   /\ currency' = currency
                   /\ rewards' = rewards
              ELSE \E i \in under :
                     /\ items' = [items EXCEPT ![i].isCollected = TRUE]
                     /\ rewards' = [rewards EXCEPT ![items[i].id] = @ + 1]
                     /\ retValue'.n > 0]_vars

\* collect() called again on an item that a collector had credited, while
\* another item has been credited as well
CollectedOnceWitness ==
  /\ op.name = "collect"
  /\ ret
  /\ rewards[op.amount] = 1
  /\ \A id \in DOMAIN rewards : rewards[id] = 1

\* A click on a point under which only a collected item lies
ClickOnCollectedWitness ==
  /\ op.name = "handleClick"
  /\ ~ret
  /\ \E i \in 1..Len(items) :
       items[i].isCollected /\ containsPoint(items[i], op.x, op.y)

\* C10: an item that update() has reported as missed is not in the Map any
\* more and is never credited, by a click or an auto-collector, in that or
\* any later tick; an item that is collected is not in the missed list of
\* any later tick.
MissedNeverCollected ==
  [][/\ \A id \in everMissed' :
          /\ rewards'[id] = 0
          /\ \A i \in 1..Len(items') : items'[i].id # id
     /\ \A i \in 1..Len(items) :
          items[i].isCollected => items[i].id \notin Range(missedItems')]_vars

\* One item has been missed and another collected and credited
MissedNeverCollectedWitness ==
  /\ everMissed # {}
  /\ \E id \in DOMAIN rewards : rewards[id] = 1
  /\ \E i \in 1..Len(items) : items[i].isCollected

----------------------------------------------------------------------------
(* Properties of the ItemManager on its own, checked on SpecItems          *)

\* C11: every call collectItemAt(x, y, m) collects at most one item: the
\* first uncollected item in insertion order whose hit-box contains the
\* point, also when several uncollected hit-boxes contain it; it returns
\* that item's baseValue, times m if the item is rising; every other item
\* is left as it was.
CollectsFirstHit ==
  [][op'.name = "collectItemAt" =>
       LET under == {k \in 1..Len(items) :
                       ~items[k].isCollected /\ containsPoint(items[k], op'.x, op'.y)}
       IN  IF under = {}
           THEN items' = items
           ELSE LET i == CHOOSE k \in under : \A j \in under : k <= j
                IN  /\ items' = [items EXCEPT ![i].isCollected = TRUE]
                    /\ retValue' = IF items[i].isRising
                                   THEN RMul(Rat(items[i].baseValue, 1), op'.m)
                                   ELSE Rat(items[i].baseValue, 1)]_vars

\* A call at a point inside the hit-boxes of a rising item and of a falling
\* item spawned after it, both uncollected: the rising one was collected
\* for 1.5 times its value, the falling one is still uncollected
CollectsFirstHitWitness ==
  /\ op.name = "collectItemAt"
  /\ ret
  /\ retValue = Rat(3, 2)
  /\ \E i \in 1..Len(items) : \E j \in (i + 1)..Len(items) :
       /\ items[i].isRising /\ items[i].isCollected
       /\ containsPoint(items[i], op.x, op.y)
       /\ ~items[j].isRising /\ ~items[j].isCollected
       /\ containsPoint(items[j], op.x, op.y)
       /\ \A k \in 1..Len(items) : items[k].isCollected => k = i

\* C13: in ItemManager.update(), an uncollected falling item whose y, once
\* moved, exceeds the window height plus its height, or an uncollected
\* rising item whose y is below minus its height, is exactly once in the
\* list the call returns and is not in the Map afterwards; an item that has
\* not crossed its exit boundary is neither reported nor removed.
MissedReportedOnce ==
  [][op'.name = "update" =>
       LET Crossed(it) ==
             \/ ~it.isRising /\ it.y > (InnerHeight + ItemHeight) * FP
             \/ it.isRising /\ it.y < -ItemHeight * FP
           Times(id) == Cardinality({k \in 1..Len(missedItems') : missedItems'[k] = id})
           Kept(id) == Cardinality({k \in 1..Len(items') : items'[k].id = id})
       IN  /\ \A i \in 1..Len(items) :
                LET moved == ItemUpdate(items[i], op'.amount)
                IN  IF Crossed(moved)
                    THEN /\ Kept(moved.id) = 0
                         /\ Times(moved.id) = IF moved.isCollected THEN 0 ELSE 1
                    ELSE /\ Kept(moved.id) = 1
                         /\ Times(moved.id) = 0
                         /\ \E k \in 1..Len(items') : items'[k] = moved
           /\ \A k \in 1..Len(items') : ~Crossed(items'[k])
           /\ \A k \in 1..Len(missedItems') :
                \E i \in 1..Len(items) : items[i].id = missedItems'[k]]_vars

\* A tick that reported one item as missed and kept another, uncollected
\* item, which has not crossed its boundary, in the Map
MissedReportedOnceWitness ==
  /\ op.name = "update"
  /\ Len(missedItems) = 1
  /\ \E k \in 1..Len(items) : ~items[k].isCollected /\ ~OffScreen(items[k])
  /\ \A k \in 1..Len(items) : items[k].id # missedItems[1]

\* C14: ItemManager.update(dt) spawns an item if and only if the time
\* accumulated since the last spawn, dt included, has reached
\* spawnInterval / spawnRateMultiplier (spawnInterval is 1.5 s): a tick
\* that stays below spawns nothing and keeps the accumulated time, a tick
\* that reaches it spawns exactly one item, however long the tick, and
\* resets the accumulated time to 0.
SpawnTiming ==
  [][op'.name = "update" =>
       LET accumulated == timeSinceLastSpawn + op'.amount
           reached == 2 * accumulated * spawnRateMultiplier.n
                        >= 3 * FP * spawnRateMultiplier.d
           fresh == {k \in 1..Len(items') :
                       \A i \in 1..Len(items) : items[i].id # items'[k].id}
       IN  IF reached
           THEN /\ nextItemId' = nextItemId + 1
                /\ Cardinality(fresh) = 1
                /\ \A k \in fresh : items'[k].id = nextItemId
                /\ timeSinceLastSpawn' = 0
           ELSE /\ nextItemId' = nextItemId
                /\ fresh = {}
                /\ timeSinceLastSpawn' = accumulated]_vars

\* A long tick, of two spawn intervals, that spawned one item
SpawnTimingWitness ==
  /\ op.name = "update"
  /\ op.amount = 2 * FP
  /\ spawnRateMultiplier = Rat(3, 2)
  /\ ret
  /\ timeSinceLastSpawn = 0
  /\ nextItemId = 1
  /\ Len(items) = 1

\* A short tick that stayed below the interval and spawned nothing
SpawnTimingBelowWitness ==
  /\ op.name = "update"
  /\ ~ret
  /\ timeSinceLastSpawn = FP \div 2
  /\ nextItemId = 0
  /\ items = <<>>

\* Two short ticks that add up to the interval: the second one spawned
SpawnTimingExactWitness ==
  /\ op.name = "update"
  /\ op.amount = FP \div 2
  /\ spawnRateMultiplier = Rat(3, 2)
  /\ ret
  /\ nextItemId = 2
  /\ Len(items) = 2
  /\ items[1].y > items[2].y

\* The 500 ms of the collection animation (the setTimeout of Item.collect),
\* in seconds
CollectAnimationTime == FP \div 2

\* C18: every item that has been collected is removed from the Map by the
\* ticks that follow, without being reported as missed, and the Map does
\* not keep collected items: a tick longer than the collection animation
\* leaves no item in the Map that was collected before it, and reports none.
CollectedRemoved ==
  [][(op'.name = "update" /\ op'.amount > CollectAnimationTime) =>
       \A i \in 1..Len(items) :
         items[i].isCollected =>
           /\ \A k \in 1..Len(items') : items'[k].id # items[i].id
           /\ items[i].id \notin Range(missedItems')]_vars

\* What the ticks do instead: a collected item is in the Map after every
\* tick, where it was.
CollectedKept ==
  [][op'.name = "update" =>
       \A i \in 1..Len(items) :
         items[i].isCollected => \E k \in 1..Len(items') : items'[k] = items[i]]_vars

----------------------------------------------------------------------------
(* Properties of the click handler, checked on SpecGame                    *)

\* C12: when no uncollected item's hit-box contains the point of a click,
\* collectItemAt returns 0 and changes no item and nothing else of the
\* ItemManager, and handleClick leaves currency and every upgrade level
\* unchanged.
MissIsNoOp ==
  [][(/\ op'.name = "handleClick"
      /\ \A i \in 1..Len(items) :
           items[i].isCollected \/ ~containsPoint(items[i], op'.x, op'.y)) =>
       /\ retValue' = Rat(0, 1)
       /\ UNCHANGED itemVars
       /\ currency' = currency
       /\ level' = level
       /\ notified' = <<>>]_vars

\* A click that missed while an uncollected item was on the screen and the
\* player held currency
MissIsNoOpWitness ==
  /\ op.name = "handleClick"
  /\ ~ret
  /\ retValue = Rat(0, 1)
  /\ currency > 0
  /\ \E i \in 1..Len(items) : ~items[i].isCollected
  /\ \A i \in 1..Len(items) : ~containsPoint(items[i], op.x, op.y)

----------------------------------------------------------------------------
(* Properties of the loop, checked on SpecGame                             *)

\* C15: whatever the sequence of start(), stop() and frame callbacks, at
\* most one frame callback is pending at any time, so that update() runs at
\* most once per animation frame and no callback requested before a stop()
\* outlives it.
OneFramePending == pendingFrames <= 1

\* C16: start() makes a stopped loop running and changes nothing when the
\* loop is running already: no further frame callback, no further autosave
\* timer; stop() makes the loop stopped, and on a stopped loop it leaves it
\* stopped with currency, levels and items unchanged; nothing but start()
\* and stop() changes whether the loop is running.
TwoStateLoop ==
  [][/\ op'.name = "start" =>
          /\ isRunning'
          /\ isRunning => UNCHANGED <<pendingFrames, saveTimerVars, ecoVars, itemVars>>
          /\ ~isRunning => /\ pendingFrames' = pendingFrames + 1
                           /\ autoSaveIntervalId'
                           /\ autoSaveTimers' = 1
     /\ op'.name = "stop" =>
          /\ ~isRunning'
          /\ ~autoSaveIntervalId'
          /\ autoSaveTimers' = 0
          /\ UNCHANGED <<currency, level, itemVars>>
     /\ isRunning' # isRunning => op'.name \in {"start", "stop"}
     /\ autoSaveTimers' <= 1]_vars

\* start() called on a running loop, some frames after the first start()
TwoStateLoopWitness ==
  /\ op.name = "start"
  /\ ret
  /\ isRunning
  /\ pendingFrames = 1
  /\ autoSaveTimers = 1
  /\ items # <<>>

\* stop() called on a stopped loop whose last frame callback has fired
StopWhenStoppedWitness ==
  /\ op.name = "stop"
  /\ ~isRunning
  /\ pendingFrames = 0
  /\ items # <<>>

----------------------------------------------------------------------------
(* Properties of a frame, checked on SpecLoop                              *)

\* C17: in every update(dt) the spawn-rate and speed multipliers derived
\* from the upgrades are handed to the ItemManager first, then
\* ItemManager.update spawns and moves the items, then the falling
\* auto-collector runs, then the rising one: the spawn test and the spawned
\* item use the multipliers of this frame, never those left from before;
\* an item collected by an auto-collector in this frame has been moved by
\* this frame first; the currency is notified for the falling items before
\* it is for the rising items.
UpdateOrder ==
  [][(op'.name = "gameLoop" /\ ret') =>
       LET dt == op'.amount
           srm == RMax(Rat(1, 1), getDropRateMultiplier(level))
           sm == RMax(Rat(1, 1), getGravityMultiplier(level))
           reached == 2 * (timeSinceLastSpawn + dt) * srm.n >= 3 * FP * srm.d
           fresh == {k \in 1..Len(items') :
                       \A i \in 1..Len(items) : items[i].id # items'[k].id}
           taken == {k \in 1..Len(items') :
                       /\ items'[k].isCollected
                       /\ \A i \in 1..Len(items) :
                            items[i].id = items'[k].id => ~items[i].isCollected}
           takenFalling == {k \in taken : ~items'[k].isRising}
           takenRising == {k \in taken : items'[k].isRising}
           worthFalling == RRound(RMul(Rat(BaseValue, 1), getValueMultiplier(level)))
       IN  /\ spawnRateMultiplier' = srm
           /\ speedMultiplier' = sm
           /\ reached <=> fresh # {}
           /\ \A k \in fresh :
                \E randomX \in SpawnXs, vx \in SpawnVelocities :
                  [items'[k] EXCEPT !.isCollected = FALSE] \in
                    {ItemUpdate(spawnItem(nextItemId, randomX * FP, vx * FP, sm), dt),
                     ItemUpdate(spawnRisingItem(nextItemId, randomX * FP, vx * FP, sm), dt)}
           /\ \A k \in taken : \A i \in 1..Len(items) :
                items[i].id = items'[k].id =>
                  items'[k] = [ItemUpdate(items[i], dt) EXCEPT !.isCollected = TRUE]
           /\ (takenFalling # {} /\ takenRising # {}) =>
                /\ Len(notified') = 2
                /\ notified'[1] = currency + Frac * worthFalling * Cardinality(takenFalling)
                /\ notified'[2] = currency'
                /\ notified'[1] < notified'[2]]_vars

\* A first frame of 1.4 s: an item would be due under the multiplier 1.1
\* the ItemManager was constructed with, and is not under the multiplier
\* of this frame; nothing was spawned
UpdateOrderWitness ==
  /\ op.name = "gameLoop"
  /\ ret
  /\ op.amount = (7 * FP) \div 5
  /\ timeSinceLastSpawn = (7 * FP) \div 5
  /\ nextItemId = 0
  /\ RLess(spawnRateMultiplier, Rat(11, 10))

\* A frame in which the falling and the rising auto-collector both took an
\* item, one of them spawned in this very frame
BothCollectorsWitness ==
  /\ op.name = "gameLoop"
  /\ ret
  /\ Len(notified) = 2
  /\ timeSinceLastSpawn = 0
  /\ \E k \in 1..Len(items) : items[k].id = nextItemId - 1 /\ items[k].isCollected

----------------------------------------------------------------------------
(* Properties of the upgrade formulas, checked on SpecUpgrades             *)

\* C19: for every combination of upgrade levels up to maxLevel,
\* UpgradeManager.getCriticalChance() is strictly less than 1, so that the
\* critical roll of a click is never certain to succeed.
CriticalChanceBelowOne ==
  op.name = "getCriticalChance" => RLess(retValue, Rat(1, 1))

\* C20: for every upgrade and every level L, getCurrentCost() is
\* floor(baseCost * costMultiplier^L).
CostFormula ==
  op.name = "getCurrentCost" =>
    LET u == Catalog[op.id]
    IN  retValue = Rat((u.baseCost * Pow(u.cmNum, op.amount)) \div Pow(u.cmDen, op.amount), 1)

\* C20, amended: getCurrentCost() is
\* floor(baseCost * costMultiplier^L * (1 - min(0.25, L * 0.01))): the
\* power of the multiplier less one percent per level, at most 25 percent.
CostFormulaDiscounted ==
  op.name = "getCurrentCost" =>
    LET u == Catalog[op.id]
        L == op.amount
        power == RMul(Rat(u.baseCost, 1), RPow(Rat(u.cmNum, u.cmDen), L))
        discount == RMin(Rat(1, 4), Rat(L, 100))
        kept == RAdd(Rat(1, 1), Rat(-discount.n, discount.d))
    IN  retValue = Rat(RFloor(RMul(power, kept)), 1)

\* A cost that the discount has lowered: the autoclicker at level 1 costs
\* 5, where floor(5 * 1.2) is 6
CostFormulaDiscountedWitness ==
  /\ op.name = "getCurrentCost"
  /\ op.id = "autoclicker"
  /\ op.amount = 1
  /\ level["autoclicker"] = 1
  /\ retValue = Rat(5, 1)

\* C21: the cost never falls from one level to the next: when getCurrentCost()
\* is called right after an upgrade() of the same upgrade, the cost it
\* returns is at least the cost of the level the upgrade had before.
CostMonotone ==
  [][(op.name = "upgrade" /\ op'.name = "getCurrentCost" /\ op'.id = op.id
        /\ op'.amount = op.amount + 1) =>
       RLeq(Rat(getCurrentCost(op.id, op.amount), 1), retValue')]_vars

\* the multiplier upgrade was upgraded from level 0 (cost 15) and costs more now
CostMonotoneWitness ==
  /\ op.name = "getCurrentCost"
  /\ op.id = "multiplier"
  /\ op.amount = 1
  /\ level["multiplier"] = 1
  /\ RLess(Rat(getCurrentCost("multiplier", 0), 1), retValue)

\* the cost stays the same: the autoclicker costs 5 at level 0 and at level 1
CostMonotoneEqualWitness ==
  /\ op.name = "getCurrentCost"
  /\ op.id = "autoclicker"
  /\ op.amount = 1
  /\ retValue = Rat(getCurrentCost("autoclicker", 0), 1)

----------------------------------------------------------------------------
(* Properties of Item.checkCollision, checked on SpecCollision            *)

\* The velocity of item i relative to item j along the direction from j
\* to i as it is in the state its; the direction is taken in tenths of a
\* pixel and not normalised, which leaves the sign as it is.
AlongNormal(its, vel, i, j) ==
  LET dx == ((its[i].x - its[j].x) * 10) \div FP
      dy == ((its[i].y - its[j].y) * 10) \div FP
  IN  (vel[i].velocityX - vel[j].velocityX) * dx + (VelocityY(vel[i]) - VelocityY(vel[j])) * dy

\* C22: when checkCollision finds two overlapping items that approach each
\* other along the direction between them, the two items do not approach
\* each other along that direction afterwards.
CollisionSeparates ==
  [][(op'.name = "checkCollision" /\ ret'
        /\ AlongNormal(items, items, op'.amount, op'.other) < 0) =>
       AlongNormal(items, items', op'.amount, op'.other) >= 0]_vars

\* Two falling items, the faster one above the slower one: they collide,
\* both keep falling, and the upper one is the slower one afterwards.
CollisionSeparatesWitness ==
  /\ op.name = "checkCollision"
  /\ ret
  /\ ~items[1].isRising /\ ~items[2].isRising
  /\ items[op.amount].y < items[op.other].y
  /\ items[op.amount].speed < items[op.other].speed

----------------------------------------------------------------------------
(* Properties of the failing storage, checked on SpecPersistence          *)

\* C23: a save whose storage write throws raises nothing and changes
\* neither currency, levels nor the stored record; when it is the save of
\* the autosave timer or of the save button, the loop keeps running with
\* its pending frame and the timer stays active.  A load whose storage
\* read throws, or whose stored text JSON.parse rejects, returns false,
\* raises nothing and leaves currency and levels as they were.
FailuresContained ==
  [][/\ (op'.name \in {"saveGame", "autoSave", "stop"} /\ ~ret') =>
          /\ ~raised'
          /\ currency' = currency /\ level' = level
          /\ storage' = storage /\ lastSaveTimestamp' = lastSaveTimestamp
          /\ op'.name # "stop" =>
                /\ isRunning' = isRunning /\ pendingFrames' = pendingFrames
                /\ autoSaveTimers' = autoSaveTimers
                /\ autoSaveIntervalId' = autoSaveIntervalId
     /\ (op'.name = "loadGame" /\ (op'.amount = 1 \/ storage.kind = "garbage")) =>
          /\ ~ret' /\ ~raised'
          /\ currency' = currency /\ level' = level /\ notified' = <<>>
          /\ isRunning' = isRunning /\ pendingFrames' = pendingFrames
          /\ autoSaveTimers' = autoSaveTimers]_vars

\* The autosave failed while the game runs with another state than the
\* stored one: the loop and the timer are still there
FailuresContainedWitness ==
  /\ op.name = "autoSave" /\ ~ret /\ ~raised
  /\ isRunning /\ pendingFrames > 0 /\ autoSaveTimers > 0
  /\ storage.kind = "json" /\ storage.currency.n # currency

\* A load failed on a throwing read while a valid record with another
\* currency is stored
LoadReadThrowsWitness ==
  /\ op.name = "loadGame" /\ op.amount = 1 /\ ~ret
  /\ storage.kind = "json" /\ storage.currency.n # currency

\* A load failed on a text that is not JSON, during a running game that has
\* earned currency
LoadParseThrowsWitness ==
  /\ op.name = "loadGame" /\ op.amount = 0 /\ ~ret
  /\ storage.kind = "garbage" /\ isRunning /\ currency > 0

----------------------------------------------------------------------------
(* Properties of the item ids, checked on SpecSpawn                        *)

\* The ids of the items of a Map
LiveIds(its) == Range(Ids(its))

\* C24: ids are handed out in increasing order and never twice.  The ids
\* handed out before a step are those below nextItemId, a counter that no
\* step lowers, clear() included; an item that a step adds to the Map has
\* an id that is at least the counter before the step, hence greater than
\* every id handed out before, and below the counter after it; the items
\* of the Map have pairwise different ids; clear() leaves the Map empty.
IdsUniqueMonotone ==
  [][/\ nextItemId' >= nextItemId
     /\ \A k \in 1..Len(items') :
          items'[k].id \notin LiveIds(items) =>
            /\ items'[k].id >= nextItemId
            /\ items'[k].id < nextItemId'
            /\ \A i \in 1..Len(items) : items'[k].id > items[i].id
     /\ \A k \in 1..Len(items') : items'[k].id < nextItemId'
     /\ \A k, m \in 1..Len(items') : k # m => items'[k].id # items'[m].id
     /\ op'.name = "clear" => items' = <<>>]_vars

\* An item was spawned after a clear() that removed item 0: it is item 1
\* (no item has left the window, and collected items stay in the Map)
IdsUniqueMonotoneWitness ==
  /\ op.name = "update" /\ ret
  /\ Len(items) = 1 /\ items[1].id = 1
  /\ everMissed = {}

\* clear() emptied a Map of two items
ClearWitness ==
  /\ op.name = "clear" /\ op.amount = 2 /\ items = <<>> /\ nextItemId = 2

----------------------------------------------------------------------------
(* Properties of Item.update, checked on SpecItem                          *)

\* C25: update(deltaTime) moves an uncollected falling item down by the
\* speed it had before the call times deltaTime.
FallsBySpeedBefore ==
  [][(op'.name = "itemUpdate" /\ ~items[op'.amount].isCollected
        /\ ~items[op'.amount].isRising) =>
       items'[op'.amount].y =
         items[op'.amount].y + (items[op'.amount].speed * op'.dt) \div FP]_vars

\* What update does: the speed is raised first, by
\* acceleration * deltaTime * 100 * accelerationFactor up to maxSpeed, and
\* the item moves by the raised speed times deltaTime.
FallsBySpeedAfter ==
  [][(op'.name = "itemUpdate" /\ ~items[op'.amount].isCollected
        /\ ~items[op'.amount].isRising) =>
       /\ items'[op'.amount].speed >= items[op'.amount].speed
       /\ items'[op'.amount].y =
            items[op'.amount].y + (items'[op'.amount].speed * op'.dt) \div FP]_vars

----------------------------------------------------------------------------
(* Properties of the auto-collectors, checked on SpecLoop                  *)

\* One step of an accumulator with the rate r, from the timer t to the
\* timer after over a frame of dt: with r > 0 a whole number n of slots of
\* 1/r seconds each was taken out of t + dt, nothing else was taken, and
\* less than one slot is left; with r <= 0 the timer is as it was.
Accumulates(t, after, r, dt) ==
  IF r.n <= 0 THEN after = t
  ELSE /\ \E n \in 0..((r.n * (t + dt)) \div (r.d * FP)) :
            after * r.n = (t + dt) * r.n - n * r.d * FP
       /\ after >= 0
       /\ after * r.n < r.d * FP

\* C27: in every frame of the running game each of the two timers makes
\* such a step with its own rate and from its own value: the timer of the
\* falling collector with getAutoClickRate(), the timer of the rising
\* collector with the rate of the rising collector.
AccumulatorKeepsTime ==
  [][(op'.name = "gameLoop" /\ ret') =>
       /\ Accumulates(autoClickTimer, autoClickTimer', getAutoClickRate(level), op'.amount)
       /\ \E r \in RisingAutoClickRates :
            Accumulates(risingAutoClickTimer, risingAutoClickTimer', r, op'.amount)]_vars

\* Both collectors are at work with different rates, and their timers hold
\* different rests of time
AccumulatorKeepsTimeWitness ==
  /\ op.name = "gameLoop" /\ ret
  /\ getAutoClickRate(level).n > 0
  /\ autoClickTimer > 0
  /\ risingAutoClickTimer > 0
  /\ autoClickTimer # risingAutoClickTimer
  /\ autoClickTimer < op.amount
  /\ risingAutoClickTimer < op.amount

\* The game runs without an auto-collector upgrade: the timer stays at 0
AccumulatorIdleWitness ==
  /\ op.name = "gameLoop" /\ ret
  /\ getAutoClickRate(level).n = 0
  /\ autoClickTimer = 0
  /\ nextItemId > 0

----------------------------------------------------------------------------
(* Properties of the two collectors, checked on SpecCollectors             *)

\* C28: called with n slots, the falling collector collects min(n, k) of
\* the k uncollected falling items of the Map, and no uncollected falling
\* item it leaves is lower in the window than one it takes; the rising
\* collector collects min(n, k') of the k' uncollected rising items, and
\* none it leaves is higher than one it takes; nothing else about the
\* items changes, so no item of the other kind and no collected item is
\* touched.
CollectsNearestExit ==
  [][(op'.name \in {"collectMultipleItems", "collectMultipleRisingItems"}) =>
       LET rising == (op'.name = "collectMultipleRisingItems")
           cand == {i \in 1..Len(items) : items[i].isRising = rising /\ ~items[i].isCollected}
           taken == {i \in 1..Len(items) : ~items[i].isCollected /\ items'[i].isCollected}
       IN  /\ Len(items') = Len(items)
           /\ taken \subseteq cand
           /\ Cardinality(taken) = Min(op'.amount, Cardinality(cand))
           /\ \A i \in taken : \A j \in cand \ taken :
                IF rising THEN items[i].y <= items[j].y ELSE items[i].y >= items[j].y
           /\ \A i \in 1..Len(items) :
                items'[i] = IF i \in taken THEN [items[i] EXCEPT !.isCollected = TRUE]
                            ELSE items[i]
           /\ \A id \in DOMAIN rewards :
                rewards'[id] = rewards[id] +
                  (IF \E i \in taken : items[i].id = id THEN 1 ELSE 0)]_vars

\* The falling collector had one slot and two falling items to choose
\* from: the lower one is collected, the upper one is not
CollectsNearestExitWitness ==
  /\ op.name = "collectMultipleItems" /\ op.amount = 1 /\ ret
  /\ \E i, j \in 1..Len(items) :
       /\ ~items[i].isRising /\ ~items[j].isRising
       /\ items[i].isCollected /\ rewards[items[i].id] = 1
       /\ ~items[j].isCollected
       /\ items[i].y > items[j].y

\* The rising collector had one slot and two rising items to choose from
CollectsRisingWitness ==
  /\ op.name = "collectMultipleRisingItems" /\ op.amount = 1 /\ ret
  /\ \E i, j \in 1..Len(items) :
       /\ items[i].isRising /\ items[j].isRising
       /\ items[i].isCollected /\ rewards[items[i].id] = 1
       /\ ~items[j].isCollected
       /\ items[i].y < items[j].y

\* A collector with two slots found one item of its kind and one of the
\* other kind
CollectsOwnKindWitness ==
  /\ op.name = "collectMultipleItems" /\ op.amount = 2 /\ ret
  /\ \E i, j \in 1..Len(items) :
       /\ ~items[i].isRising /\ items[i].isCollected
       /\ items[j].isRising /\ ~items[j].isCollected

----------------------------------------------------------------------------
(* Properties of the credit of a collection, checked on SpecCredit         *)

\* What an auto-collector adds to totalValue for the items of indices
\* from..Len(its) that are in taken: Math.round(value * valueMultiplier)
\* each, value being baseValue, times the rising multiplier if rising
RECURSIVE AutoCredit(_, _, _, _)
AutoCredit(its, taken, valueMultiplier, from) ==
  IF from > Len(its) THEN 0
  ELSE (IF from \in taken
        THEN RRound(RMul(IF its[from].isRising
                         THEN RMul(Rat(its[from].baseValue, 1), getRisingValueMultiplier)
                         ELSE Rat(its[from].baseValue, 1),
                         valueMultiplier))
        ELSE 0)
       + AutoCredit(its, taken, valueMultiplier, from + 1)

\* C29: a click that hits an item of value v (the rising multiplier
\* applied) raises currency in one addCurrency call by
\* round(v * valueMultiplier) when the critical roll fails and by
\* round(round(v * valueMultiplier) * criticalMultiplier) when it
\* succeeds; a frame raises currency by round(value * valueMultiplier)
\* for each item its auto-collectors took, with no critical multiplier.
CreditedOnce ==
  [][
      /\ (op'.name = "handleClick" /\ ret') =>
          (LET base == RRound(RMul(retValue', getValueMultiplier(level)))
               critical == RRound(RMul(Rat(base, 1), getCriticalMultiplier(level)))
           IN  /\ retValue'.n > 0
               /\ notified' = <<currency'>>
               /\ currency' - currency =
                    Frac * (IF op'.id = "critical" THEN critical ELSE base))
      /\ (op'.name = "gameLoop" /\ ret') =>
          (LET taken == {k \in 1..Len(items') :
                           /\ items'[k].isCollected
                           /\ \A i \in 1..Len(items) :
                                items[i].id = items'[k].id => ~items[i].isCollected}
           IN  currency' - currency =
                 Frac * AutoCredit(items', taken, getValueMultiplier(level), 1))
  ]_vars

\* A critical click on a rising item of value 1.5: round(1.5) = 2 is
\* tripled to 6 (tripling first would give round(4.5) = 5, the sum of
\* both credits 8)
CreditedOnceWitness ==
  /\ op.name = "handleClick" /\ op.id = "critical" /\ ret
  /\ retValue = Rat(3, 2)
  /\ notified = <<currency>>
  /\ \E i \in 1..Len(items) : items[i].isRising /\ items[i].isCollected
  /\ currency = 6 * Frac

\* A click on a rising item without the critical multiplier
CreditedPlainWitness ==
  /\ op.name = "handleClick" /\ op.id = "" /\ ret
  /\ retValue = Rat(3, 2)
  /\ notified = <<currency>>

\* A frame whose rising auto-collector took an item: credited 2
CreditedAutoWitness ==
  /\ op.name = "gameLoop" /\ ret
  /\ \E i \in 1..Len(items) :
       items[i].isRising /\ items[i].isCollected /\ rewards[items[i].id] = 1
  /\ notified = <<currency>>
  /\ currency = 2 * Frac

----------------------------------------------------------------------------
(* Properties of the multipliers, checked on SpecMultipliers               *)

\* C30: at every combination of levels getValueMultiplier() and
\* getDropRateMultiplier() are at least 1 and getGravityMultiplier() is
\* at least 1/5 and above 0; with the upgrade it reads at level 0 (for
\* the drop rate: all upgrades at level 0) each of the three is 1.
MultiplierBaselines ==
  /\ op.name = "getValueMultiplier" =>
       /\ RLeq(Rat(1, 1), retValue)
       /\ level["multiplier"] = 0 => retValue = Rat(1, 1)
  /\ op.name = "getDropRateMultiplier" =>
       /\ RLeq(Rat(1, 1), retValue)
       /\ getTotalUpgradeLevels(level) = 0 => retValue = Rat(1, 1)
  /\ op.name = "getGravityMultiplier" =>
       /\ RLeq(Rat(1, 5), retValue)
       /\ retValue.n > 0
       /\ level["gravity"] = 0 => retValue = Rat(1, 1)

\* The floors hold, and so do the baselines of the value and the drop
\* rate; the gravity multiplier of level 0 is the floor 1/5, and that of
\* level 1 is 9/10
MultiplierFloors ==
  /\ op.name = "getValueMultiplier" =>
       /\ RLeq(Rat(1, 1), retValue)
       /\ level["multiplier"] = 0 => retValue = Rat(1, 1)
  /\ op.name = "getDropRateMultiplier" =>
       /\ RLeq(Rat(1, 1), retValue)
       /\ getTotalUpgradeLevels(level) = 0 => retValue = Rat(1, 1)
  /\ op.name = "getGravityMultiplier" =>
       /\ RLeq(Rat(1, 5), retValue)
       /\ retValue.n > 0
       /\ level["gravity"] = 0 => retValue = Rat(1, 5)
       /\ level["gravity"] = 1 => retValue = Rat(9, 10)

----------------------------------------------------------------------------
(* Properties of the derived getters, checked on SpecPurchases             *)

\* C31: a successful purchase of an upgrade of one type leaves the
\* getters of every other type unchanged: the value multiplier, the drop
\* rate multiplier, the gravity multiplier, the critical chance and the
\* auto-click rate.
GettersIndependent ==
  [][(op'.name = "purchaseUpgrade" /\ ret') =>
       /\ op'.id # "multiplier" => getValueMultiplier(level') = getValueMultiplier(level)
       /\ op'.id # "drop_rate" => getDropRateMultiplier(level') = getDropRateMultiplier(level)
       /\ op'.id # "gravity" => getGravityMultiplier(level') = getGravityMultiplier(level)
       /\ op'.id # "critical_chance" => getCriticalChance(level') = getCriticalChance(level)
       /\ op'.id # "autoclicker" => getAutoClickRate(level') = getAutoClickRate(level)]_vars

\* C31, amended: a successful purchase of an upgrade of another type
\* leaves the value multiplier, the gravity multiplier, the critical
\* multiplier and the auto-click rate unchanged; it raises the drop rate
\* multiplier by 0.005 times max(1, effect of drop_rate) and the critical
\* chance by 0.002, up to 1.
GettersShareTotal ==
  [][(op'.name = "purchaseUpgrade" /\ ret') =>
       /\ level'[op'.id] = level[op'.id] + 1
       /\ \A id \in UpgradeIds \ {op'.id} : level'[id] = level[id]
       /\ op'.id # "multiplier" => getValueMultiplier(level') = getValueMultiplier(level)
       /\ op'.id # "gravity" => getGravityMultiplier(level') = getGravityMultiplier(level)
       /\ op'.id # "autoclicker" => getAutoClickRate(level') = getAutoClickRate(level)
       /\ getCriticalMultiplier(level') = getCriticalMultiplier(level)
       /\ op'.id # "drop_rate" =>
            getDropRateMultiplier(level') =
              RAdd(getDropRateMultiplier(level),
                   RMul(RMax(Rat(1, 1), getCurrentEffect("drop_rate", level["drop_rate"])),
                        Rat(5, 1000)))
       /\ op'.id # "critical_chance" =>
            getCriticalChance(level') =
              RMin(Rat(1, 1), RAdd(getCriticalChance(level), Rat(2, 1000)))]_vars

\* The autoclicker was bought first: the drop rate multiplier is 1.005
\* and the critical chance 0.002 with both of their upgrades at level 0
GettersShareTotalWitness ==
  /\ op.name = "purchaseUpgrade" /\ op.id = "autoclicker" /\ ret
  /\ level["drop_rate"] = 0 /\ level["critical_chance"] = 0
  /\ getDropRateMultiplier(level) = Rat(1005, 1000)
  /\ getCriticalChance(level) = Rat(2, 1000)

\* The gravity upgrade was bought with the drop rate upgrade at level 1:
\* the bonus is 0.005 times the effect 1.5
GettersShareTotalScaledWitness ==
  /\ op.name = "purchaseUpgrade" /\ op.id = "gravity" /\ ret
  /\ level["drop_rate"] = 1
  /\ getDropRateMultiplier(level) = RMul(Rat(3, 2), Rat(1010, 1000))

----------------------------------------------------------------------------
(* Properties of the multipliers of the ItemManager, checked on SpecSpeed  *)

\* The item an update() spawned, as it is in the Map after the update
\* has moved it: the last item of its, when nothing of before has its id
Spawned(before, its) ==
  {k \in 1..Len(its) : \A i \in 1..Len(before) : before[i].id # its[k].id}

\* C32: setSpawnRateMultiplier(m) stores max(1, m); setSpeedMultiplier(m)
\* stores a factor m of the gravity upgrade, 1/5 <= m < 1, as it is, and
\* an item spawned by the next update() starts at baseSpeed * m (times
\* 0.8 if it rises), below baseSpeed.
SpeedFactorStored ==
  [][
      /\ op'.name = "setSpawnRateMultiplier" =>
           \E m \in SpawnRateMultipliers : spawnRateMultiplier' = RMax(Rat(1, 1), m)
      /\ (op'.name = "setSpeedMultiplier" /\ RLeq(Rat(1, 5), op'.m) /\ RLess(op'.m, Rat(1, 1))) =>
           speedMultiplier' = op'.m
      /\ (op.name = "setSpeedMultiplier" /\ RLeq(Rat(1, 5), op.m) /\ RLess(op.m, Rat(1, 1))
            /\ op'.name = "update" /\ ret') =>
           \A k \in Spawned(items, items') :
             \E randomX \in SpawnXs, vx \in SpawnVelocities :
               items'[k] =
                 ItemUpdate(NewItem(nextItemId, randomX * FP,
                                    IF op'.id = "rising" THEN (InnerHeight + SpawnY) * FP
                                    ELSE -SpawnY * FP,
                                    IF op'.id = "rising"
                                    THEN (((BaseSpeed * FP * op.m.n) \div op.m.d) * 8) \div 10
                                    ELSE (BaseSpeed * FP * op.m.n) \div op.m.d,
                                    vx * FP, op'.id = "rising"),
                            op'.amount)
  ]_vars

\* What the code does: both setters store max(1, m), and an item is
\* spawned at baseSpeed times the stored multiplier, never below baseSpeed
SpeedFactorFlooredAtOne ==
  [][
      /\ op'.name = "setSpawnRateMultiplier" =>
           \E m \in SpawnRateMultipliers : spawnRateMultiplier' = RMax(Rat(1, 1), m)
      /\ op'.name = "setSpeedMultiplier" =>
           /\ speedMultiplier' = RMax(Rat(1, 1), op'.m)
           /\ RLeq(Rat(1, 1), speedMultiplier')
      /\ (op'.name = "update" /\ ret') =>
           \A k \in Spawned(items, items') :
             \E randomX \in SpawnXs, vx \in SpawnVelocities :
               items'[k] =
                 ItemUpdate(NewItem(nextItemId, randomX * FP,
                                    IF op'.id = "rising" THEN (InnerHeight + SpawnY) * FP
                                    ELSE -SpawnY * FP,
                                    IF op'.id = "rising"
                                    THEN (((BaseSpeed * FP * speedMultiplier.n)
                                            \div speedMultiplier.d) * 8) \div 10
                                    ELSE (BaseSpeed * FP * speedMultiplier.n)
                                           \div speedMultiplier.d,
                                    vx * FP, op'.id = "rising"),
                            op'.amount)
  ]_vars

----------------------------------------------------------------------------
(* Properties of the collision cooldown, checked on SpecCollision          *)

\* The fields a collision resolution works on
Motion(it) == <<it.x, it.y, it.speed, it.velocityX>>

\* C33: after checkCollision has resolved a collision both items have the
\* cooldown of 0.1 s; while either item of the pair has a cooldown left
\* checkCollision resolves nothing and changes neither; when the two
\* items are on the same spot, position, speed and velocity of both stay
\* as they were.
CooldownOnBoth ==
  [][op'.name = "checkCollision" =>
       LET i == op'.amount
           j == op'.other
       IN  /\ ret' =>
                /\ items'[i].collisionCooldown = CollisionCooldown
                /\ items'[j].collisionCooldown = CollisionCooldown
           /\ (items[i].collisionCooldown > 0 \/ items[j].collisionCooldown > 0) =>
                ~ret' /\ items' = items
           /\ (items[i].x = items[j].x /\ items[i].y = items[j].y) =>
                Motion(items'[i]) = Motion(items[i]) /\ Motion(items'[j]) = Motion(items[j])]_vars

\* What the code does: the item checkCollision is called on gets the
\* cooldown and resolves nothing while it lasts; the other item gets none
\* and its own cooldown is not looked at.
CooldownOnCaller ==
  [][op'.name = "checkCollision" =>
       LET i == op'.amount
           j == op'.other
       IN  /\ ret' =>
                /\ items'[i].collisionCooldown = CollisionCooldown
                /\ items'[j].collisionCooldown = items[j].collisionCooldown
           /\ items[i].collisionCooldown > 0 => ~ret' /\ items' = items
           /\ (items[i].x = items[j].x /\ items[i].y = items[j].y) =>
                Motion(items'[i]) = Motion(items[i]) /\ Motion(items'[j]) = Motion(items[j])]_vars

\* An item within its cooldown was the other side of a second resolution,
\* which changed its speed
CooldownIgnoredWitness ==
  /\ op.name = "checkCollision" /\ ret
  /\ items[op.amount].collisionCooldown = CollisionCooldown
  /\ items[op.other].collisionCooldown = CollisionCooldown

----------------------------------------------------------------------------
(* Properties of a collected item, checked on SpecInert                    *)

\* The bounding boxes of two items overlap
Overlap(a, b) ==
  /\ a.x < b.x + ItemWidth * FP
  /\ a.x + ItemWidth * FP > b.x
  /\ a.y < b.y + ItemHeight * FP
  /\ a.y + ItemHeight * FP > b.y

\* C34: a collected item stays collected; update(dt) of a collected item
\* returns false and changes nothing of it; checkCollision with a
\* collected item on either side returns false and changes neither item.
CollectedInert ==
  [][
      /\ Len(items') = Len(items)
      /\ \A i \in 1..Len(items) : items[i].isCollected => items'[i].isCollected
      /\ (op'.name = "itemUpdate" /\ items[op'.amount].isCollected) =>
           ~ret' /\ items' = items
      /\ (op'.name = "checkCollision"
            /\ (items[op'.amount].isCollected \/ items[op'.other].isCollected)) =>
           ~ret' /\ items' = items
  ]_vars

\* checkCollision was called on an item that overlaps a collected item
\* and has no cooldown left, and returned false
CollectedInertWitness ==
  /\ op.name = "checkCollision" /\ ~ret
  /\ ~items[op.amount].isCollected /\ items[op.amount].collisionCooldown = 0
  /\ items[op.other].isCollected
  /\ Overlap(items[op.amount], items[op.other])

\* update() was called on a collected item inside the window
CollectedNotMovedWitness ==
  /\ op.name = "itemUpdate" /\ ~ret
  /\ items[op.amount].isCollected
  /\ ~OffScreen(items[op.amount])

----------------------------------------------------------------------------
(* Properties of the horizontal movement, checked on SpecDrift             *)

\* C35: update(dt) of an uncollected item, falling or rising, moves x by
\* velocityX * dt, keeps it within 0 and innerWidth - width, and leaves
\* |velocityX| at most maxHorizontalSpeed.
DriftsSideways ==
  [][(op'.name = "itemUpdate" /\ ~items[op'.amount].isCollected) =>
       LET before == items[op'.amount]
           after == items'[op'.amount]
       IN  /\ after.x = Clamp(before.x + (before.velocityX * op'.dt) \div FP,
                              0, (InnerWidth - ItemWidth) * FP)
           /\ Abs(after.velocityX) <= MaxHorizontalSpeed * FP]_vars

\* What the code does: a rising item moves sideways, and is put back
\* inside the window unless this update took it out through the top; a
\* falling item keeps its x.
DriftsWhenRising ==
  [][(op'.name = "itemUpdate" /\ ~items[op'.amount].isCollected) =>
       LET before == items[op'.amount]
           after == items'[op'.amount]
           moved == before.x + (before.velocityX * op'.dt) \div FP
       IN  /\ (before.isRising /\ ret') =>
                after.x = Clamp(moved, 0, (InnerWidth - ItemWidth) * FP)
           /\ (before.isRising /\ ~ret') => after.x = moved
           /\ ~before.isRising =>
                after.x = Clamp(before.x, 0, (InnerWidth - ItemWidth) * FP)
           /\ Abs(after.velocityX) <= MaxHorizontalSpeed * FP]_vars

----------------------------------------------------------------------------
(* Properties of stopping, checked on SpecTimers                           *)

\* C36: while the game is stopped a frame callback returns without
\* running update() and no autosave timer fires; stop() calls saveGame()
\* once, so that the record holds the state of the game unless the write
\* fails, and leaves no timer; startAutoSave() leaves exactly one timer
\* however often it is called, stopAutoSave() leaves none.
StopHalts ==
  [][
      /\ (~isRunning /\ op'.name = "gameLoop") =>
           /\ ~ret'
           /\ UNCHANGED <<ecoVars, saveTimerVars, itemVars, isRunning,
                          autoClickTimer, risingAutoClickTimer>>
      /\ ~isRunning => op'.name # "autoSave"
      /\ op'.name = "stop" =>
           /\ ~isRunning'
           /\ autoSaveTimers' = 0 /\ ~autoSaveIntervalId'
           /\ ret' => /\ hasSave(storage')
                      /\ storage'.currency.n = currency
                      /\ storage'.timestamp.n = lastSaveTimestamp'
                      /\ \A id \in UpgradeIds : RecordedLevels(storage', id) = {level[id]}
           /\ ~ret' => storage' = storage
      /\ op'.name = "startAutoSave" => autoSaveTimers' = 1 /\ autoSaveIntervalId'
      /\ op'.name = "stopAutoSave" => autoSaveTimers' = 0 /\ ~autoSaveIntervalId'
  ]_vars

\* A frame callback requested before stop() fired after it: update() did
\* not run, the items are where they were
StopHaltsWitness ==
  /\ op.name = "gameLoop" /\ ~ret
  /\ ~isRunning
  /\ pendingFrames = 0
  /\ autoSaveTimers = 0
  /\ items # <<>>
  /\ hasSave(storage)

\* startAutoSave() was called while a timer was active: one timer is left
StartAutoSaveTwiceWitness ==
  /\ op.name = "startAutoSave" /\ ret
  /\ autoSaveTimers = 1

----------------------------------------------------------------------------
(* Properties of a load over earlier levels, checked on SpecLoad           *)

\* The places of the entries of a record that name an upgrade
EntriesOf(stor, id) ==
  {k \in 1..Len(stor.upgrades.a) : stor.upgrades.a[k].id = JStr(id)}

\* C37: after a successful loadGame() an upgrade the record does not name
\* has the level it had before, and an upgrade the record names has the
\* level of the last entry that names it (at most maxLevel).
LoadKeepsAbsent ==
  [][(op'.name = "loadGame" /\ ret') =>
       \A id \in UpgradeIds :
         LET entries == EntriesOf(storage, id)
         IN  IF entries = {} THEN level'[id] = level[id]
             ELSE LET last == CHOOSE k \in entries : \A m \in entries : m <= k
                  IN  level'[id] = Min(storage.upgrades.a[last].level.n, maxLevel(id))]_vars

\* The record naming the drop rate alone was loaded over an autoclicker
\* of level 1 or 2, which is kept
LoadKeepsAbsentWitness ==
  /\ op.name = "loadGame" /\ ret
  /\ storage = RecDropRate
  /\ level["autoclicker"] > 0
  /\ level["drop_rate"] = 1

\* The record naming the autoclicker at level 2 and then at level 1 was
\* loaded
LoadLastEntryWitness ==
  /\ op.name = "loadGame" /\ ret
  /\ storage = RecDuplicate
  /\ level["autoclicker"] = 1

----------------------------------------------------------------------------
(* Properties of deleting the save, checked on SpecDelete                  *)

\* C38: a deleteSave() that returns true leaves currency 0, every level 0
\* and no record; without a record loadGame() returns false and changes
\* neither currency nor levels nor the storage; a record appears where
\* there was none only by a saveGame() that succeeds: the save button, the
\* autosave timer or stop().
DeletedUntilSaved ==
  [][
     /\ (op'.name = "deleteSave" /\ ret') =>
          /\ currency' = 0
          /\ \A id \in UpgradeIds : level'[id] = 0
          /\ ~hasSave(storage')
     /\ (~hasSave(storage) /\ op'.name = "loadGame") =>
          /\ ~ret'
          /\ UNCHANGED <<currency, level, storage, lastSaveTimestamp>>
     /\ (~hasSave(storage) /\ hasSave(storage')) =>
          /\ op'.name \in {"saveGame", "autoSave", "stop"}
          /\ ret'
          /\ storage' = Stringify(CURRENT_VERSION, lastSaveTimestamp', currency, level)
    ]_vars

\* A game with upgrades was deleted
DeletedUntilSavedWitness ==
  /\ op.name = "deleteSave" /\ ret
  /\ op.amount > 0
  /\ currency = 0
  /\ ~hasSave(storage)

\* loadGame() was called after the deletion and returned false
LoadAfterDeleteWitness ==
  /\ op.name = "loadGame" /\ ~ret
  /\ ~hasSave(storage)
  /\ currency = 0
  /\ getTotalUpgradeLevels(level) = 0

\* The autosave timer wrote the record of the reset game after the deletion
SavedAfterDeleteWitness ==
  /\ op.name = "autoSave" /\ ret
  /\ hasSave(storage)
  /\ currency = 0
  /\ getTotalUpgradeLevels(level) = 0

============================================================================
